---- MODULE Spec2Model ----
(***************************************************************************)
(* Model of the YouTube competitor-analysis program.                       *)
(*                                                                         *)
(*   execution/pipeline.py   run_pipeline, deduplicate_handles             *)
(*   execution/analytics.py  calculate_engagement, calculate_outlier_scores*)
(*                           rank_top_videos, build_channel_summary,       *)
(*                           build_comparative_data, process_all           *)
(*   execution/youtube_api.py  fetch_channel_data, _retry, _filter_shorts, *)
(*                           get_recent_videos, get_video_details          *)
(*   execution/slides_report.py  _retry_api, the formatters and the        *)
(*                           _build_fallback_* narrative builders          *)
(*   app.py                  check_password and the page behind it         *)
(*                                                                         *)
(* Python values are represented as follows.                               *)
(*   - a dict is a function from field names to values; a missing key is   *)
(*     a field outside DOMAIN (see Get);                                   *)
(*   - None is the string "None";                                          *)
(*   - a handle is a sequence of one-character strings;                    *)
(*   - a float that came out of round(x, 2) is the integer number of       *)
(*     hundredths; an unrounded float quotient is a record [num, den];     *)
(*   - the median of integers is kept doubled (an integer);                *)
(*   - an exception is a sequence starting with its class name, the empty  *)
(*     sequence standing for a call that returned.                         *)
(***************************************************************************)
EXTENDS Integers, Sequences, FiniteSets, TLC

\* ------------------------------------------------------------------------
\* Bounds of the model
\* ------------------------------------------------------------------------

\* longest competitor list handed to run_pipeline
MaxInputLen == 8

\* largest view, like and comment count of the video handed to
\* calculate_engagement
MaxViews == 5
MaxLikes == 3
MaxComments == 3

\* longest lists handed to calculate_outlier_scores
MaxBaselineLen == 4
MaxPeriodLen == 2

\* most competitors in the raw_data handed to process_all
MaxCohort == 2

\* most runs of like uploads in a channel's uploads playlist, and most
\* scripted endings of calls made through _retry
MaxBlocks == 2
MaxAttempts == 2

\* ------------------------------------------------------------------------
\* Program constants
\* ------------------------------------------------------------------------

\* pipeline.py:62  "if len(competitors) < 4"
MinCompetitors == 4

\* pipeline.py:65  "if len(competitors) > 7"
MaxCompetitors == 7

\* pipeline.py:40  "days: int = 60"
DefaultDays == 60

None == "None"

\* None, or a name not bound yet, where the value is otherwise a dict
NoneDict == [none |-> TRUE]
IsNone(d) == "none" \in DOMAIN d

\* ------------------------------------------------------------------------
\* Generic helpers
\* ------------------------------------------------------------------------

\* dict.get(key, default)
Get(d, key, default) == IF key \in DOMAIN d THEN d[key] ELSE default

\* dict(d) followed by d[key] = val
SetField(d, key, val) ==
    [k \in (DOMAIN d) \cup {key} |-> IF k = key THEN val ELSE d[k]]

\* ------------------------------------------------------------------------
\* Handles and deduplicate_handles (pipeline.py:20-34)
\* ------------------------------------------------------------------------

LowerLetters == <<"a", "b", "c", "d", "e", "f", "g", "h", "i", "j", "p">>
UpperLetters == <<"A", "B", "C", "D", "E", "F", "G", "H", "I", "J", "P">>

\* str.lower() on one character
LowerChar(c) ==
    IF \E i \in 1..Len(UpperLetters) : UpperLetters[i] = c
    THEN LowerLetters[CHOOSE i \in 1..Len(UpperLetters) : UpperLetters[i] = c]
    ELSE c

\* str.lower()
Lower(s) == [i \in 1..Len(s) |-> LowerChar(s[i])]

\* str.lstrip("@"): removes every leading "@"
RECURSIVE LStripAt(_)
LStripAt(s) ==
    IF s # <<>> /\ Head(s) = "@" THEN LStripAt(Tail(s)) ELSE s

\* the handle with its case kept
Normalize_CaseKept(h) == LStripAt(h)

\* comp.lstrip("@").lower()
Normalize(h) == Lower(LStripAt(h))

\* the loop of deduplicate_handles over the competitors not yet visited
RECURSIVE DedupLoop(_, _, _, _)
DedupLoop(rest, seen, unique, warnings) ==
    IF rest = <<>>
    THEN [unique |-> unique, warnings |-> warnings]
    ELSE LET comp == Head(rest)
             normalized == Normalize(comp)
         IN  IF normalized \in seen
             THEN DedupLoop(Tail(rest), seen, unique,
                            Append(warnings, normalized))
             ELSE DedupLoop(Tail(rest), seen \cup {normalized},
                            Append(unique, comp), warnings)

\* deduplicate_handles(channel, competitors) -> (unique_competitors, warnings)
deduplicate_handles(chan, comps) ==
    DedupLoop(comps, {Normalize(chan)}, <<>>, <<>>)

\* ------------------------------------------------------------------------
\* Inputs of run_pipeline
\* ------------------------------------------------------------------------

PrimaryHandle == <<"@", "p">>

\* the handle written at position i of an input list: either a new handle,
\* or another spelling of the handle before it (of the primary at i = 1)
FreshHandle(i) == <<"@", LowerLetters[i]>>
RepeatHandle(i) ==
    IF i = 1 THEN <<"@", "@", "P">> ELSE <<UpperLetters[i - 1]>>

RECURSIVE ListsOfLen(_)
ListsOfLen(n) ==
    IF n = 0 THEN { <<>> }
    ELSE { Append(s, h) : s \in ListsOfLen(n - 1),
                          h \in {FreshHandle(n), RepeatHandle(n)} }

InputLists == UNION { ListsOfLen(n) : n \in 0..MaxInputLen }

\* ------------------------------------------------------------------------
\* analytics.py: engagement and outlier scores
\* ------------------------------------------------------------------------

\* the float 0.0 / the int 0 as a quotient
ZeroQuot == [num |-> 0, den |-> 1]

\* calculate_engagement counting the likes only
calculate_engagement_LikesOnly(video) ==
    LET views == Get(video, "views", 0)
    IN  IF views = 0
        THEN ZeroQuot
        ELSE [num |-> Get(video, "likes", 0) * 100, den |-> views]

\* calculate_engagement(video)  (analytics.py:10-21)
\* the float (likes + comments) / views * 100 is kept as the quotient
\* ((likes + comments) * 100) / views
calculate_engagement(video) ==
    LET views == Get(video, "views", 0)
    IN  IF views = 0
        THEN ZeroQuot
        ELSE LET likes == Get(video, "likes", 0)
                 comments == Get(video, "comments", 0)
             IN  [num |-> (likes + comments) * 100, den |-> views]

\* sorted(data) on integers
SortInts(s) == SortSeq(s, LAMBDA x, y : x < y)

\* median2 taking the upper middle element of an even-length list
median2_UpperMiddle(data) ==
    LET sorted == SortInts(data)
    IN  2 * sorted[(Len(sorted) \div 2) + 1]

\* statistics.median(data), doubled: the middle element (odd length) or the
\* mean of the two middle elements (even length); data is not empty
median2(data) ==
    LET sorted == SortInts(data)
        n == Len(sorted)
    IN  IF n % 2 = 1
        THEN 2 * sorted[(n \div 2) + 1]
        ELSE sorted[n \div 2] + sorted[(n \div 2) + 1]

\* significand width of a Python float (IEEE 754 binary64)
MantissaBits == 53

RECURSIVE BitLength(_)
BitLength(n) == IF n = 0 THEN 0 ELSE 1 + BitLength(n \div 2)

\* binary long division of r / b: produces `need` further significant bits
\* and returns the remainder left after the last one, with that last bit
RECURSIVE DivBits(_, _, _, _, _)
DivBits(r, b, need, started, lastBit) ==
    IF need = 0 \/ r = 0
    THEN [rem |-> r, last |-> lastBit]
    ELSE LET bit == IF 2 * r >= b THEN 1 ELSE 0
             r2 == 2 * r - bit * b
         IN  IF started \/ bit = 1
             THEN DivBits(r2, b, need - 1, TRUE, bit)
             ELSE DivBits(r2, b, need, FALSE, 0)

\* sign of fl(a / b) - a / b, where fl is the correctly rounded float
\* quotient computed by Python's true division (a >= 0, b > 0)
FloatErrSign(a, b) ==
    LET ipart == a \div b
        d == IF ipart > 0
             THEN DivBits(a % b, b, MantissaBits - BitLength(ipart), TRUE,
                          ipart % 2)
             ELSE DivBits(a % b, b, MantissaBits, FALSE, 0)
    IN  IF d.rem = 0 THEN 0
        ELSE IF 2 * d.rem > b THEN 1
        ELSE IF 2 * d.rem < b THEN -1
        ELSE IF d.last = 1 THEN 1 ELSE -1

\* round(a / b, 2) in hundredths: Python rounds the float fl(a / b), exactly,
\* to the nearest multiple of 0.01, an exact half going to the even one
Round2(a, b) ==
    LET n == (100 * a) \div b
        rem == (100 * a) % b
    IN  IF 2 * rem < b THEN n
        ELSE IF 2 * rem > b THEN n + 1
        ELSE LET s == FloatErrSign(a, b)
             IN  IF s > 0 THEN n + 1
                 ELSE IF s < 0 THEN n
                 ELSE IF n % 2 = 0 THEN n ELSE n + 1

\* round(a / b, 1) in tenths, as Round2
Round1(a, b) ==
    LET n == (10 * a) \div b
        rem == (10 * a) % b
    IN  IF 2 * rem < b THEN n
        ELSE IF 2 * rem > b THEN n + 1
        ELSE LET s == FloatErrSign(a, b)
             IN  IF s > 0 THEN n + 1
                 ELSE IF s < 0 THEN n
                 ELSE IF n % 2 = 0 THEN n ELSE n + 1

\* lines 32-33: the median of the baseline views, doubled; 0 without baseline
baseline_median2(bvideos) ==
    LET baseline_views ==
            [i \in 1..Len(bvideos) |-> Get(bvideos[i], "views", 0)]
    IN  IF baseline_views # <<>> THEN median2(baseline_views) ELSE 0

\* lines 37-42: the copy of one period video with its two derived fields;
\* outlier_score is in hundredths
EnrichVideo(video, median_views2) ==
    LET enriched ==
            SetField(video, "engagement", calculate_engagement(video))
    IN  IF median_views2 > 0
        THEN SetField(enriched, "outlier_score",
                      Round2(2 * Get(video, "views", 0), median_views2))
        ELSE SetField(enriched, "outlier_score", 0)

\* calculate_outlier_scores putting each scored video in front of the list
calculate_outlier_scores_Prepend(pvideos, bvideos) ==
    LET n == Len(pvideos)
    IN  [i \in 1..n |->
            EnrichVideo(pvideos[n + 1 - i], baseline_median2(bvideos))]

\* calculate_outlier_scores(period_videos, baseline_videos)
\* (analytics.py:24-45)
calculate_outlier_scores(pvideos, bvideos) ==
    [i \in 1..Len(pvideos) |->
        EnrichVideo(pvideos[i], baseline_median2(bvideos))]

\* the source record written to instead of a copy of it
SourceAfterScoring_InPlace(video, median_views2) ==
    EnrichVideo(video, median_views2)

\* what the source dict `video` holds once lines 37-43 have run for it:
\* line 37 binds enriched to a new dict, dict(video), and lines 38-42 store
\* into that one, so the source holds what it held
SourceAfterScoring(video, median_views2) == video

\* the list period_videos once calculate_outlier_scores has returned: the
\* function appends to its own list `scored` only
PeriodAfterScoring(pvideos, bvideos) ==
    [i \in 1..Len(pvideos) |->
        SourceAfterScoring(pvideos[i], baseline_median2(bvideos))]

\* the list baseline_videos once calculate_outlier_scores has returned: line
\* 32 only reads it
BaselineAfterScoring(pvideos, bvideos) == bvideos

\* ------------------------------------------------------------------------
\* analytics.py: channel summaries and comparative data
\* ------------------------------------------------------------------------

RECURSIVE SumSeq(_)
SumSeq(s) == IF s = <<>> THEN 0 ELSE Head(s) + SumSeq(Tail(s))

\* s[:n]
Take(s, n) == SubSeq(s, 1, IF Len(s) < n THEN Len(s) ELSE n)

\* the list sorted ascending and then reversed: equal keys end up in
\* reverse order
SortedDesc_Reversed(s, keys) ==
    LET n == Len(s)
        Rank(i) == 1 + Cardinality({ j \in 1..n :
                          \/ keys[j] > keys[i]
                          \/ (keys[j] = keys[i] /\ j > i) })
    IN  [p \in 1..n |-> s[CHOOSE i \in 1..n : Rank(i) = p]]

\* sorted(s, key=..., reverse=True), keys[i] being the key of s[i]: Python's
\* sort is stable, also with reverse=True, so s[i] lands behind every
\* element with a greater key and every earlier element with an equal key
SortedDesc(s, keys) ==
    LET n == Len(s)
        Rank(i) == 1 + Cardinality({ j \in 1..n :
                          \/ keys[j] > keys[i]
                          \/ (keys[j] = keys[i] /\ j < i) })
    IN  [p \in 1..n |-> s[CHOOSE i \in 1..n : Rank(i) = p]]

\* round(q, 2) of a float quotient, in hundredths.  The float lies within
\* rounding error of num / den, so the result is the nearest multiple of
\* 0.01 whenever num / den is not exactly halfway between two of them; the
\* halfway case is resolved to the even one
RoundQuot2(q) ==
    LET n == (100 * q.num) \div q.den
        rem == (100 * q.num) % q.den
    IN  IF 2 * rem < q.den THEN n
        ELSE IF 2 * rem > q.den THEN n + 1
        ELSE IF n % 2 = 0 THEN n ELSE n + 1

RECURSIVE GCD(_, _)
GCD(a, b) == IF b = 0 THEN a ELSE GCD(b, a % b)

\* the sum of two float quotients, as a quotient in lowest terms
AddQuot(p, q) ==
    LET num == p.num * q.den + q.num * p.den
        den == p.den * q.den
        g == GCD(num, den)
    IN  [num |-> num \div g, den |-> den \div g]

\* sum(...) over float quotients
RECURSIVE SumQuot(_)
SumQuot(s) == IF s = <<>> THEN ZeroQuot ELSE AddQuot(Head(s), SumQuot(Tail(s)))

\* rank_top_videos(videos, n=5)  (analytics.py:48-60)
TopN == 5

\* rank_top_videos cutting the list before it sorts it
rank_top_videos_CutFirst(videos) ==
    LET cut == Take(videos, TopN)
        keys == [i \in 1..Len(cut) |-> Get(cut[i], "outlier_score", 0)]
        top == SortedDesc(cut, keys)
    IN  [i \in 1..Len(top) |->
            [title |-> top[i]["title"],
             video_id |-> top[i]["video_id"],
             views |-> top[i]["views"],
             engagement |-> RoundQuot2(Get(top[i], "engagement", ZeroQuot)),
             outlier_score |-> Get(top[i], "outlier_score", 0)]]

rank_top_videos(videos) ==
    LET keys == [i \in 1..Len(videos) |-> Get(videos[i], "outlier_score", 0)]
        sorted_videos == SortedDesc(videos, keys)
        top == Take(sorted_videos, TopN)
    IN  [i \in 1..Len(top) |->
            [title |-> top[i]["title"],
             video_id |-> top[i]["video_id"],
             views |-> top[i]["views"],
             engagement |-> RoundQuot2(Get(top[i], "engagement", ZeroQuot)),
             outlier_score |-> Get(top[i], "outlier_score", 0)]]

\* line 82: avg_engagement, in hundredths
avg_engagement(engagements) ==
    IF engagements # <<>>
    THEN LET total == SumQuot(engagements)
         IN  RoundQuot2([num |-> total.num,
                         den |-> total.den * Len(engagements)])
    ELSE 0

\* line 85: avg_duration, in tenths
avg_duration(durations) ==
    IF durations # <<>>
    THEN Round1(SumSeq(durations), Len(durations))
    ELSE 0

\* upload_frequency dividing by days / 7 whatever the window
upload_frequency_NoFloor(video_count, days) ==
    RoundQuot2([num |-> 7 * video_count, den |-> days])

\* lines 87-88: weeks = max(days / 7, 1) and
\* upload_frequency = round(video_count / weeks, 2), in hundredths
upload_frequency(video_count, days) ==
    IF days > 7
    THEN RoundQuot2([num |-> 7 * video_count, den |-> days])
    ELSE 100 * video_count

\* build_channel_summary(channel_data, days)  (analytics.py:63-104)
build_channel_summary(channel_data, days) ==
    LET period_videos ==
            calculate_outlier_scores(channel_data["period_videos"],
                                     channel_data["baseline_videos"])
        total_period_views ==
            SumSeq([i \in 1..Len(period_videos) |->
                       Get(period_videos[i], "views", 0)])
        engagements ==
            [i \in 1..Len(period_videos) |->
                Get(period_videos[i], "engagement", ZeroQuot)]
        durations ==
            [i \in 1..Len(period_videos) |->
                Get(period_videos[i], "duration_seconds", 0)]
    IN  [channel_id |-> channel_data["channel_id"],
         channel_name |-> channel_data["channel_name"],
         role |-> Get(channel_data, "role", "competitor"),
         subscriber_count |-> Get(channel_data, "subscriber_count", None),
         total_period_views |-> total_period_views,
         video_count |-> Len(period_videos),
         avg_engagement |-> avg_engagement(engagements),
         avg_duration |-> avg_duration(durations),
         upload_frequency |-> upload_frequency(Len(period_videos), days),
         top_videos |-> rank_top_videos(period_videos),
         period_videos |-> period_videos]

\* cross_channel_leaderboard keeps the first 10  (analytics.py:167)
LeaderboardSize == 10

RECURSIVE Flatten(_)
Flatten(ss) == IF ss = <<>> THEN <<>> ELSE Head(ss) \o Flatten(Tail(ss))

\* best_outlier reading the first scored video instead of the top one
best_outlier_FirstUploaded(summary) ==
    IF summary["period_videos"] # <<>>
    THEN summary["period_videos"][1]["outlier_score"]
    ELSE 0

\* best_outlier(summary)  (analytics.py:136-139)
best_outlier(summary) ==
    IF summary["top_videos"] # <<>>
    THEN summary["top_videos"][1]["outlier_score"]
    ELSE 0

\* top_performer naming the primary channel
top_performer_Primary(all_summaries, by_views) ==
    IF by_views # <<>> THEN all_summaries[1]["channel_name"] ELSE None

\* line 151: top_performer
top_performer(all_summaries, by_views) ==
    IF by_views # <<>> THEN by_views[1]["channel_name"] ELSE None

\* the leaderboard pooled from the top_videos of the channels
cross_channel_leaderboard_FromTop(all_summaries) ==
    LET Pooled(s) ==
            LET vs == s["top_videos"]
            IN  [i \in 1..Len(vs) |->
                    [channel_name |-> s["channel_name"],
                     title |-> vs[i]["title"],
                     video_id |-> vs[i]["video_id"],
                     views |-> vs[i]["views"],
                     outlier_score |-> vs[i]["outlier_score"],
                     engagement |-> vs[i]["engagement"]]]
        all_videos ==
            Flatten([i \in 1..Len(all_summaries) |-> Pooled(all_summaries[i])])
        sorted_videos ==
            SortedDesc(all_videos,
                       [i \in 1..Len(all_videos) |->
                           all_videos[i]["outlier_score"]])
    IN  Take(sorted_videos, LeaderboardSize)

\* lines 153-167: cross_channel_leaderboard
cross_channel_leaderboard(all_summaries) ==
    LET Pooled(s) ==
            LET vs == Get(s, "period_videos", <<>>)
            IN  [i \in 1..Len(vs) |->
                    [channel_name |-> s["channel_name"],
                     title |-> vs[i]["title"],
                     video_id |-> vs[i]["video_id"],
                     views |-> vs[i]["views"],
                     outlier_score |-> Get(vs[i], "outlier_score", 0),
                     engagement |->
                        RoundQuot2(Get(vs[i], "engagement", ZeroQuot))]]
        all_videos ==
            Flatten([i \in 1..Len(all_summaries) |-> Pooled(all_summaries[i])])
        sorted_videos ==
            SortedDesc(all_videos,
                       [i \in 1..Len(all_videos) |->
                           all_videos[i]["outlier_score"]])
    IN  Take(sorted_videos, LeaderboardSize)

\* build_comparative_data(channel_summary, competitor_summaries)
\* (analytics.py:107-175)
build_comparative_data(channel_summary, competitor_summaries) ==
    LET all_summaries == <<channel_summary>> \o competitor_summaries
        n == Len(all_summaries)
        by_views ==
            SortedDesc(all_summaries,
                       [i \in 1..n |-> all_summaries[i]["total_period_views"]])
        by_engagement ==
            SortedDesc(all_summaries,
                       [i \in 1..n |-> all_summaries[i]["avg_engagement"]])
        by_outlier ==
            SortedDesc(all_summaries,
                       [i \in 1..n |-> best_outlier(all_summaries[i])])
    IN  [views_ranking |->
            [i \in 1..n |->
                [channel_name |-> by_views[i]["channel_name"],
                 total_period_views |-> by_views[i]["total_period_views"]]],
         engagement_ranking |->
            [i \in 1..n |->
                [channel_name |-> by_engagement[i]["channel_name"],
                 avg_engagement |-> by_engagement[i]["avg_engagement"]]],
         outlier_ranking |->
            [i \in 1..n |->
                [channel_name |-> by_outlier[i]["channel_name"],
                 highest_outlier_score |-> best_outlier(by_outlier[i])]],
         top_performer |-> top_performer(all_summaries, by_views),
         cross_channel_leaderboard |->
            cross_channel_leaderboard(all_summaries)]

\* ------------------------------------------------------------------------
\* analytics.py: the exception a call raises
\* ------------------------------------------------------------------------

\* no exception: the call returns
NoError == <<>>

\* d[key] on a dict without that key
KeyError(key) == <<"KeyError", key>>

\* the first exception of a sequence of evaluations
RECURSIVE FirstError(_)
FirstError(errs) ==
    IF errs = <<>> THEN NoError
    ELSE IF Head(errs) # NoError THEN Head(errs)
    ELSE FirstError(Tail(errs))

\* d[keys[1]], d[keys[2]], ... evaluated in this order
Subscripts(d, keys) ==
    FirstError([i \in 1..Len(keys) |->
                   IF keys[i] \in DOMAIN d THEN NoError
                   ELSE KeyError(keys[i])])

\* rank_top_videos: lines 53-55 subscript each of the first n sorted videos
rank_top_videos_raises(videos) ==
    LET keys == [i \in 1..Len(videos) |-> Get(videos[i], "outlier_score", 0)]
        top == Take(SortedDesc(videos, keys), TopN)
    IN  FirstError([i \in 1..Len(top) |->
                       Subscripts(top[i], <<"title", "video_id", "views">>)])

\* build_channel_summary subscripting the role at line 95
build_channel_summary_raises_Strict(channel_data) ==
    LET args == Subscripts(channel_data,
                           <<"period_videos", "baseline_videos">>)
    IN  IF args # NoError THEN args
        ELSE FirstError(<<
                 rank_top_videos_raises(
                     calculate_outlier_scores(
                         channel_data["period_videos"],
                         channel_data["baseline_videos"])),
                 Subscripts(channel_data,
                            <<"channel_id", "channel_name", "role">>) >>)

\* build_channel_summary raising where it divides by the number of videos
build_channel_summary_raises_NoGuard(channel_data) ==
    LET args == Subscripts(channel_data,
                           <<"period_videos", "baseline_videos">>)
    IN  IF args # NoError THEN args
        ELSE IF channel_data["period_videos"] = <<>>
        THEN <<"ZeroDivisionError">>
        ELSE FirstError(<<
                 rank_top_videos_raises(
                     calculate_outlier_scores(
                         channel_data["period_videos"],
                         channel_data["baseline_videos"])),
                 Subscripts(channel_data, <<"channel_id", "channel_name">>) >>)

\* build_channel_summary: lines 75, 90 and 93-94 in the order they run; the
\* guards of lines 82 and 85 keep an empty list from being divided by
build_channel_summary_raises(channel_data) ==
    LET args == Subscripts(channel_data,
                           <<"period_videos", "baseline_videos">>)
    IN  IF args # NoError THEN args
        ELSE FirstError(<<
                 rank_top_videos_raises(
                     calculate_outlier_scores(
                         channel_data["period_videos"],
                         channel_data["baseline_videos"])),
                 Subscripts(channel_data, <<"channel_id", "channel_name">>) >>)

\* build_comparative_data on summaries build_channel_summary returned:
\* lines 159-161 subscript every pooled video
build_comparative_data_raises(all_summaries) ==
    FirstError([i \in 1..Len(all_summaries) |->
        LET vs == Get(all_summaries[i], "period_videos", <<>>)
        IN  FirstError([j \in 1..Len(vs) |->
                Subscripts(vs[j], <<"title", "video_id", "views">>)])])

\* process_all: lines 190, 193 and 196 in the order they run
process_all_raises(raw_data) ==
    LET chan == Subscripts(raw_data, <<"channel">>)
        chanSummary == build_channel_summary_raises(raw_data["channel"])
        comps == Subscripts(raw_data, <<"competitors">>)
        compSummaries ==
            FirstError([i \in 1..Len(raw_data["competitors"]) |->
                build_channel_summary_raises(raw_data["competitors"][i])])
    IN  IF chan # NoError THEN chan
        ELSE IF chanSummary # NoError THEN chanSummary
        ELSE IF comps # NoError THEN comps
        ELSE IF compSummaries # NoError THEN compSummaries
        ELSE LET days == Get(raw_data, "days", DefaultDays)
                 all_summaries ==
                     <<build_channel_summary(raw_data["channel"], days)>> \o
                     [i \in 1..Len(raw_data["competitors"]) |->
                         build_channel_summary(raw_data["competitors"][i],
                                               days)]
             IN  build_comparative_data_raises(all_summaries)

\* what the dict channel_data holds once build_channel_summary has run on
\* it: the function stores into no dict or list it was given, its one call
\* that is handed them is calculate_outlier_scores (line 74)
ChannelAfterSummary(channel_data) ==
    IF Subscripts(channel_data, <<"period_videos", "baseline_videos">>)
           = NoError
    THEN [k \in DOMAIN channel_data |->
            CASE k = "period_videos" ->
                     PeriodAfterScoring(channel_data["period_videos"],
                                        channel_data["baseline_videos"])
              [] k = "baseline_videos" ->
                     BaselineAfterScoring(channel_data["period_videos"],
                                          channel_data["baseline_videos"])
              [] OTHER -> channel_data[k]]
    ELSE channel_data

\* what the dict raw_data holds once process_all has run on it
RawAfterProcessAll(raw_data) ==
    [k \in DOMAIN raw_data |->
        CASE k = "channel" -> ChannelAfterSummary(raw_data["channel"])
          [] k = "competitors" /\ "channel" \in DOMAIN raw_data ->
                 [i \in 1..Len(raw_data["competitors"]) |->
                     ChannelAfterSummary(raw_data["competitors"][i])]
          [] OTHER -> raw_data[k]]

\* process_all(raw_data)  (analytics.py:178-202)
process_all(raw_data) ==
    LET days == Get(raw_data, "days", DefaultDays)
        channel_summary == build_channel_summary(raw_data["channel"], days)
        competitor_summaries ==
            [i \in 1..Len(raw_data["competitors"]) |->
                build_channel_summary(raw_data["competitors"][i], days)]
    IN  [channel |-> channel_summary,
         competitors |-> competitor_summaries,
         comparative |->
            build_comparative_data(channel_summary, competitor_summaries)]

\* ------------------------------------------------------------------------
\* External collaborators of run_pipeline
\* ------------------------------------------------------------------------

\* one video as get_video_details builds it  (youtube_api.py:204-214)
Video(id, views, likes, comments) ==
    [video_id |-> id, title |-> id, published_at |-> "t",
     views |-> views, likes |-> likes, comments |-> comments,
     duration_seconds |-> 600]

\* what a successful fetch_channel_data(handle) returns
\* (youtube_api.py:259-267); the videos depend on the channel only
FetchedData(handle) ==
    LET name == Normalize(handle)
        vids == IF name \in {<<"p">>, <<"a">>}
                THEN <<Video("v1", 500, 20, 5), Video("v2", 100, 1, 0)>>
                ELSE IF name = <<"b">> THEN <<>>
                ELSE <<Video("v3", 300, 3, 3)>>
    IN  [channel_id |-> name,
         channel_name |-> name,
         subscriber_count |-> IF name = <<"c">> THEN None ELSE 1000,
         total_views |-> 5000,
         uploads_playlist_id |-> name,
         period_videos |-> vids,
         baseline_videos |-> vids \o <<Video("v0", 200, 2, 2)>>]

\* what generate_insights returns when it does not raise
\* (ai_insights.py:338-342); "" stands for an empty (falsy) part
InsightsValues ==
    { [comparative_analysis |-> c, video_ideas |-> "ai", takeaways |-> t] :
        c \in {"", "ai"}, t \in {"", "ai"} }

\* how generate_report ends: it returns the URL, or raises
ReportOutcomes == {"url", "ValueError", "FileNotFoundError", "Exception"}

\* _fill_comparative_slide  (slides_report.py:323-333): where overview,
\* trends and gaps come from
comparative_source(ins) ==
    IF ~IsNone(ins) /\ ins["comparative_analysis"] # ""
    THEN "ai" ELSE "fallback"

\* _fill_takeaways_slide  (slides_report.py:440-443)
takeaways_source(ins) ==
    IF ~IsNone(ins) /\ ins["takeaways"] # "" THEN "ai" ELSE "fallback"

\* ------------------------------------------------------------------------
\* slides_report.py: formatting helpers
\* ------------------------------------------------------------------------

\* the decimal digits of n, zero-padded to the given width
RECURSIVE ZeroPad(_, _)
ZeroPad(n, width) ==
    IF width <= 1 THEN ToString(n)
    ELSE ZeroPad(n \div 10, width - 1) \o ToString(n % 10)

\* _fmt_number(n)  (slides_report.py:77-81): f"{int(n):,}".  The three
\* formatters return "N/A" for None; the fallback texts format view counts,
\* scores and engagement rates only, which analytics.py never leaves None.
RECURSIVE _fmt_number(_)
_fmt_number(n) ==
    IF n < 1000 THEN ToString(n)
    ELSE _fmt_number(n \div 1000) \o "," \o ZeroPad(n % 1000, 3)

\* _fmt_engagement(val)  (slides_report.py:84-88): f"{val:.2f}%", val in
\* hundredths
_fmt_engagement(val) ==
    ToString(val \div 100) \o "." \o ZeroPad(val % 100, 2) \o "%"

\* _fmt_outlier(val)  (slides_report.py:91-95): f"{val:.2f}x", val in
\* hundredths
_fmt_outlier(val) ==
    ToString(val \div 100) \o "." \o ZeroPad(val % 100, 2) \o "x"

\* _truncate(text, max_len)  (slides_report.py:98-104)
_truncate(text, max_len) ==
    IF text = "" THEN ""
    ELSE IF Len(text) <= max_len THEN text
    ELSE SubSeq(text, 1, max_len - 3) \o "..."

\* sep.join(parts)
RECURSIVE Join(_, _)
Join(parts, sep) ==
    IF parts = <<>> THEN ""
    ELSE IF Len(parts) = 1 THEN parts[1]
    ELSE parts[1] \o sep \o Join(Tail(parts), sep)

\* ------------------------------------------------------------------------
\* Python floats, for the comparisons their rounding decides
\* ------------------------------------------------------------------------

\* a natural number below 2^130 is held as ten limbs of 13 bits, the least
\* significant first
LimbBase == 8192

NumLimbs == 10

Limbs == 0..(NumLimbs - 1)

RECURSIVE Pow2(_)
Pow2(n) == IF n = 0 THEN 1 ELSE 2 * Pow2(n - 1)

Limb(x, i) == IF i \in Limbs THEN x[i] ELSE 0

\* small * 2^s  (small < 2^18)
BigShifted(small, s) ==
    LET q == s \div 13
        v == small * Pow2(s % 13)
    IN  [i \in Limbs |->
            IF i = q THEN v % LimbBase
            ELSE IF i = q + 1 THEN (v \div LimbBase) % LimbBase
            ELSE IF i = q + 2 THEN v \div (LimbBase * LimbBase)
            ELSE 0]

\* the remainder carried into limb i when x is divided by b  (b < 2^18)
RECURSIVE BigRemInto(_, _, _)
BigRemInto(x, b, i) ==
    IF i = NumLimbs - 1 THEN 0
    ELSE (BigRemInto(x, b, i + 1) * LimbBase + x[i + 1]) % b

\* x \div b
BigDiv(x, b) ==
    [i \in Limbs |-> (BigRemInto(x, b, i) * LimbBase + x[i]) \div b]

\* x % b
BigMod(x, b) == (BigRemInto(x, b, 0) * LimbBase + x[0]) % b

\* x + 1
BigInc(x) ==
    LET j == CHOOSE j \in Limbs :
                /\ x[j] # LimbBase - 1
                /\ \A i \in 0..(j - 1) : x[i] = LimbBase - 1
    IN  [i \in Limbs |-> IF i < j THEN 0 ELSE IF i = j THEN x[i] + 1 ELSE x[i]]

\* x * y, for x and y below 2^65
BigMul(x, y) ==
    LET col == [k \in Limbs |->
                    SumSeq([n \in 1..5 |-> Limb(x, n - 1) * Limb(y, k - n + 1)])]
        carry[k \in Limbs] ==
            IF k = 0 THEN 0 ELSE (col[k - 1] + carry[k - 1]) \div LimbBase
    IN  [k \in Limbs |-> (col[k] + carry[k]) % LimbBase]

\* the number of bits of x > 0
BigBitLength(x) ==
    LET top == CHOOSE i \in Limbs :
                    x[i] # 0 /\ \A j \in (i + 1)..(NumLimbs - 1) : x[j] = 0
    IN  13 * top + BitLength(x[top])

\* bit n of x
BigBit(x, n) == (x[n \div 13] \div Pow2(n % 13)) % 2

\* x \div 2^s
BigShiftRight(x, s) ==
    LET q == s \div 13
        r == s % 13
    IN  [i \in Limbs |->
            (Limb(x, i + q) \div Pow2(r))
            + (Limb(x, i + q + 1) % Pow2(r)) * Pow2(13 - r)]

BigGreater(x, y) ==
    \E i \in Limbs :
        x[i] > y[i] /\ \A j \in (i + 1)..(NumLimbs - 1) : x[j] = y[j]

\* a positive float is man * 2^(exp - 52) with 2^52 <= man < 2^53; a
\* mantissa rounded up to 2^53 is renormalised
FloatOf(man, exp) ==
    IF man[4] = 2
    THEN [man |-> [i \in Limbs |-> IF i = 4 THEN 1 ELSE 0], exp |-> exp + 1]
    ELSE [man |-> man, exp |-> exp]

\* floor(log2(a / b))  (a, b > 0)
Exponent(a, b) ==
    LET d == BitLength(a) - BitLength(b)
    IN  IF d >= 0
        THEN IF a >= b * Pow2(d) THEN d ELSE d - 1
        ELSE IF a * Pow2(-d) >= b THEN d ELSE d - 1

\* the float nearest to a / b, an exact half going to the even mantissa
\* (0 < a, b < 2^18)
ToFloat(a, b) ==
    LET e == Exponent(a, b)
        n == BigShifted(a, 52 - e)
        q == BigDiv(n, b)
        rem == BigMod(n, b)
        up == 2 * rem > b \/ (2 * rem = b /\ q[0] % 2 = 1)
    IN  FloatOf(IF up THEN BigInc(q) ELSE q, e)

\* x * y on floats: the exact product rounded to 53 bits
FloatMul(x, y) ==
    LET p == BigMul(x.man, y.man)
        s == BigBitLength(p) - MantissaBits
        q == BigShiftRight(p, s)
        half == BigBit(p, s - 1) = 1
        sticky == \E n \in 0..(s - 2) : BigBit(p, n) = 1
        up == half /\ (sticky \/ q[0] % 2 = 1)
    IN  FloatOf(IF up THEN BigInc(q) ELSE q, x.exp + y.exp + s - 52)

\* x > y on positive floats
FloatGreater(x, y) ==
    \/ x.exp > y.exp
    \/ x.exp = y.exp /\ BigGreater(x.man, y.man)

\* c > ch * g on floats, for c = m / unit, ch = k / unit and the literal g
\* = gn / gd: when m * gd and k * gn differ, by far more than the rounding
\* of the three floats and of the product; when they are equal, by that
\* rounding
ExceedsScaled(m, k, unit, gn, gd) ==
    IF m * gd # k * gn THEN m * gd > k * gn
    ELSE IF m = 0 THEN FALSE
    ELSE FloatGreater(ToFloat(m, unit),
                      FloatMul(ToFloat(k, unit), ToFloat(gn, gd)))

\* ------------------------------------------------------------------------
\* slides_report.py: the fallback narrative
\* ------------------------------------------------------------------------

\* {}
EmptyDict == <<>>

\* next((i + 1 for i, r in enumerate(ranking) if r["channel_name"] == name),
\* default): the 1-based position of the first entry of that name
RankOf(ranking, name, default) ==
    LET hits == { i \in DOMAIN ranking : ranking[i]["channel_name"] = name }
    IN  IF hits = {} THEN default
        ELSE CHOOSE i \in hits : \A j \in hits : i <= j

\* _build_fallback_overview(analytics)  (slides_report.py:458-500); the
\* rank None is held as 0, which the tests of lines 479 and 481 take alike
_build_fallback_overview(analytics) ==
    LET channel == Get(analytics, "channel", EmptyDict)
        comparative == Get(analytics, "comparative", EmptyDict)
        competitors == Get(analytics, "competitors", <<>>)
        channel_name == Get(channel, "channel_name", "Your channel")
        topPerformer == Get(comparative, "top_performer", "N/A")
        num_competitors == Len(competitors)
        views_ranking == Get(comparative, "views_ranking", <<>>)
        channel_views_rank == RankOf(views_ranking, channel_name, 0)
        eng_ranking == Get(comparative, "engagement_ranking", <<>>)
        channel_eng_rank == RankOf(eng_ranking, channel_name, 0)
        parts1 ==
            << "Analysis of " \o channel_name \o " against "
               \o ToString(num_competitors) \o " competitors." >>
        parts2 ==
            IF channel_views_rank # 0
            THEN Append(parts1,
                        channel_name \o " ranks #"
                        \o ToString(channel_views_rank)
                        \o " in total period views")
            ELSE parts1
        parts3 ==
            [parts2 EXCEPT ![Len(parts2)] =
                IF channel_eng_rank # 0
                THEN @ \o " and #" \o ToString(channel_eng_rank)
                       \o " in average engagement."
                ELSE @ \o "."]
        parts4 ==
            Append(parts3, "Top performer by views: " \o topPerformer \o ".")
        leaderboard == Get(comparative, "cross_channel_leaderboard", <<>>)
        parts5 ==
            IF leaderboard # <<>>
            THEN LET top_vid == leaderboard[1]
                 IN  Append(parts4,
                            "Highest outlier video: \""
                            \o _truncate(top_vid["title"], 40) \o "\" by "
                            \o top_vid["channel_name"] \o " ("
                            \o _fmt_outlier(top_vid["outlier_score"])
                            \o " median, " \o _fmt_number(top_vid["views"])
                            \o " views).")
            ELSE parts4
    IN  Join(parts5, " ")

\* line 524: the set of the channel names of the first five leaderboard
\* entries
outlier_channels(analytics) ==
    LET comparative == Get(analytics, "comparative", EmptyDict)
        leaderboard == Get(comparative, "cross_channel_leaderboard", <<>>)
    IN  { leaderboard[i]["channel_name"] :
            i \in 1..(IF Len(leaderboard) < 5 THEN Len(leaderboard) ELSE 5) }

\* the lists list(s) can be for a set s of strings: the iteration order of
\* a set of str follows the hashes of its members, which are salted anew in
\* every interpreter process (PYTHONHASHSEED is not set by the program)
ListsOfSet(s) ==
    { l \in [1..Cardinality(s) -> s] :
        \A i, j \in 1..Cardinality(s) : i # j => l[i] # l[j] }

\* _build_fallback_trends(analytics)  (slides_report.py:503-530), where
\* list(outlier_channels) is `listed`
_build_fallback_trends(analytics, listed) ==
    LET comparative == Get(analytics, "comparative", EmptyDict)
        views_ranking == Get(comparative, "views_ranking", <<>>)
        trends1 ==
            IF Len(views_ranking) >= 2
            THEN LET top == views_ranking[1]
                 IN  << top["channel_name"] \o " leads in views with "
                        \o _fmt_number(top["total_period_views"])
                        \o " total period views" >>
            ELSE <<>>
        eng_ranking == Get(comparative, "engagement_ranking", <<>>)
        trends2 ==
            IF eng_ranking # <<>>
            THEN LET top_eng == eng_ranking[1]
                 IN  Append(trends1,
                            top_eng["channel_name"]
                            \o " has highest engagement at "
                            \o _fmt_engagement(top_eng["avg_engagement"]))
            ELSE trends1
        leaderboard == Get(comparative, "cross_channel_leaderboard", <<>>)
        trends3 ==
            IF leaderboard # <<>>
            THEN IF Len(listed) = 1
                 THEN Append(trends2,
                             listed[1] \o " dominates the top outlier videos")
                 ELSE Append(trends2,
                             "Top outlier videos spread across "
                             \o Join(Take(listed, 3), ", "))
            ELSE trends2
    IN  Take(trends3, 3)

\* _build_fallback_gaps(analytics)  (slides_report.py:533-560); the dash of
\* the last bullet is written in ASCII
_build_fallback_gaps(analytics) ==
    LET channel == Get(analytics, "channel", EmptyDict)
        competitors == Get(analytics, "competitors", <<>>)
        Names(cs) ==
            Join([i \in 1..Len(Take(cs, 2)) |-> cs[i]["channel_name"]], ", ")
        channel_freq == Get(channel, "upload_frequency", 0)
        IsHighFreq(c) ==
            ExceedsScaled(Get(c, "upload_frequency", 0), channel_freq,
                          100, 3, 2)
        high_freq_comps == SelectSeq(competitors, IsHighFreq)
        gaps1 ==
            IF high_freq_comps # <<>>
            THEN << "Upload frequency gap: " \o Names(high_freq_comps)
                    \o " publish significantly more often" >>
            ELSE <<>>
        channel_eng == Get(channel, "avg_engagement", 0)
        IsHigherEng(c) ==
            ExceedsScaled(Get(c, "avg_engagement", 0), channel_eng, 100, 6, 5)
        higher_eng == SelectSeq(competitors, IsHigherEng)
        gaps2 ==
            IF higher_eng # <<>>
            THEN Append(gaps1,
                        "Engagement gap: " \o Names(higher_eng)
                        \o " achieve higher engagement rates")
            ELSE gaps1
        channel_views == Get(channel, "total_period_views", 0)
        IsHigherViews(c) ==
            ExceedsScaled(Get(c, "total_period_views", 0), channel_views,
                          1, 3, 2)
        higher_views == SelectSeq(competitors, IsHigherViews)
        gaps3 ==
            IF higher_views # <<>>
            THEN Append(gaps2,
                        "Views gap: " \o Names(higher_views)
                        \o " generate significantly more total views")
            ELSE gaps2
        gaps4 ==
            IF gaps3 = <<>>
            THEN << "No significant content gaps identified - channel is "
                    \o "competitive across key metrics" >>
            ELSE gaps3
    IN  Take(gaps4, 3)

\* the takeaways without the closing prompt
_build_fallback_takeaways_NoPrompt(analytics) ==
    LET channel == Get(analytics, "channel", EmptyDict)
        comparative == Get(analytics, "comparative", EmptyDict)
        channel_name == Get(channel, "channel_name", "Your channel")
        views_ranking == Get(comparative, "views_ranking", <<>>)
        leaderboard == Get(comparative, "cross_channel_leaderboard", <<>>)
    IN  << channel_name \o " ranks #"
           \o ToString(RankOf(views_ranking, channel_name,
                               Len(views_ranking))) >>
        \o (IF leaderboard # <<>>
            THEN << "\"" \o leaderboard[1]["title"] \o "\" by "
                    \o leaderboard[1]["channel_name"] \o " with " >>
            ELSE <<>>)

\* _build_fallback_takeaways(analytics)  (slides_report.py:617-649)
_build_fallback_takeaways(analytics) ==
    LET channel == Get(analytics, "channel", EmptyDict)
        comparative == Get(analytics, "comparative", EmptyDict)
        topPerformer == Get(comparative, "top_performer", "N/A")
        channel_name == Get(channel, "channel_name", "Your channel")
        views_ranking == Get(comparative, "views_ranking", <<>>)
        channel_rank ==
            RankOf(views_ranking, channel_name, Len(views_ranking))
        takeaways1 ==
            << channel_name \o " ranks #" \o ToString(channel_rank) \o " of "
               \o ToString(Len(views_ranking))
               \o " channels in total period views. Top performer is "
               \o topPerformer \o "." >>
        leaderboard == Get(comparative, "cross_channel_leaderboard", <<>>)
        takeaways2 ==
            IF leaderboard # <<>>
            THEN LET top_vid == leaderboard[1]
                 IN  Append(takeaways1,
                            "The highest-performing video across all "
                            \o "channels is \""
                            \o _truncate(top_vid["title"], 40) \o "\" by "
                            \o top_vid["channel_name"] \o " with "
                            \o _fmt_outlier(top_vid["outlier_score"])
                            \o " median performance.")
            ELSE takeaways1
        takeaways3 ==
            Append(takeaways2,
                   "Enable AI insights (Feature 4) for personalized content "
                   \o "strategy recommendations and data-driven video ideas.")
    IN  Take(takeaways3, 3)

\* the texts the report shows without insights: overview, trends and gaps
\* (_fill_comparative_slide, slides_report.py:329-333) and takeaways
\* (_fill_takeaways_slide, slides_report.py:442-443)
fallback_narrative(analytics, listed) ==
    [overview |-> _build_fallback_overview(analytics),
     trends |-> _build_fallback_trends(analytics, listed),
     gaps |-> _build_fallback_gaps(analytics),
     takeaways |-> _build_fallback_takeaways(analytics)]

\* ------------------------------------------------------------------------
\* app.py: the password gate
\* ------------------------------------------------------------------------

\* lines 31-36: os.getenv("APP_PASSWORD"), st.secrets.get("APP_PASSWORD",
\* "") when that is unset or empty, "" when the secrets lack it too; None
\* stands for unset
configured_password(env, secrets) ==
    IF env # None /\ env # "" THEN env
    ELSE IF secrets # None THEN secrets
    ELSE ""

\* check_password looking at the session flag before the configuration
check_password_FlagFirst(app_password, session, password, login) ==
    IF "authenticated" \in DOMAIN session /\ session["authenticated"]
    THEN [returns |-> TRUE, session |-> session, rerun |-> FALSE,
          shows |-> "nothing"]
    ELSE IF app_password = ""
    THEN [returns |-> FALSE, session |-> session, rerun |-> FALSE,
          shows |-> "unconfigured"]
    ELSE [returns |-> FALSE,
          session |-> [authenticated |-> login /\ password = app_password],
          rerun |-> login /\ password = app_password,
          shows |-> "login"]

\* check_password()  (app.py:29-54) run with the configured password
\* app_password, the session state `session`, `password` in the Password
\* input and the Login button clicked or not: what it returns, the session
\* state it leaves, whether it calls st.rerun(), and what it renders
check_password(app_password, session, password, login) ==
    IF app_password = ""
    THEN [returns |-> FALSE, session |-> session, rerun |-> FALSE,
          shows |-> "unconfigured"]
    ELSE LET initialised ==
                IF "authenticated" \notin DOMAIN session
                THEN [authenticated |-> FALSE]
                ELSE session
         IN  IF initialised["authenticated"]
             THEN [returns |-> TRUE, session |-> initialised,
                   rerun |-> FALSE, shows |-> "nothing"]
             ELSE IF login /\ password = app_password
             THEN [returns |-> FALSE,
                   session |-> [authenticated |-> TRUE],
                   rerun |-> TRUE, shows |-> "login"]
             ELSE [returns |-> FALSE, session |-> initialised,
                   rerun |-> FALSE, shows |-> "login"]

\* ------------------------------------------------------------------------
\* run_pipeline  (pipeline.py:37-203)
\* ------------------------------------------------------------------------

VARIABLES
    pc,                 \* where the generator stands
    channel,            \* argument channel
    input_competitors,  \* argument competitors, as given
    skip_slides,        \* argument skip_slides
    youtube_key,        \* whether YOUTUBE_API_KEY is set
    competitors,        \* local competitors (rebound at line 70)
    idx,                \* position of the competitor loop (1-based)
    events,             \* the dicts yielded so far
    calls,              \* the collaborators called so far
    total_videos,
    failed_channels,
    channel_data,
    competitors_data,
    analytics,
    insights,
    report_url,
    narrative           \* text sources of the rendered report, if any

pipeVars == <<pc, channel, input_competitors, skip_slides, youtube_key,
              competitors, idx, events, calls, total_videos, failed_channels,
              channel_data, competitors_data, analytics, insights,
              report_url, narrative>>

\* a call of calculate_engagement
VARIABLES
    eng_pc,             \* "idle", "call" (about to run) or "done"
    eng_video,          \* argument video
    eng_result          \* the value returned

engVars == <<eng_pc, eng_video, eng_result>>

\* a call of calculate_outlier_scores
VARIABLES
    score_pc,           \* "idle", "call" (about to run) or "done"
    period_videos,      \* argument period_videos
    baseline_videos,    \* argument baseline_videos
    scored              \* the list returned

scoreVars == <<score_pc, period_videos, baseline_videos, scored>>

\* a call of process_all or of build_channel_summary
VARIABLES
    an_pc,              \* "idle", "call" (about to run) or "done"
    an_op,              \* the function called
    raw_data,           \* argument raw_data of process_all; its "channel"
                        \* and "days" are the arguments of
                        \* build_channel_summary
    an_raised,          \* the exception raised, NoError if the call returned
    an_result           \* the dict returned

anVars == <<an_pc, an_op, raw_data, an_raised, an_result>>

\* a call of fetch_channel_data
VARIABLES
    fetch_pc,           \* "idle", "call" (about to run) or "done"
    uploads,            \* the channel's uploads playlist, most recent first
    fetch_days,         \* argument days
    attempts,           \* how the successive calls made through _retry end
    fetch_raised,       \* the exception raised, NoError if the call returned
    fetch_data          \* the dict returned

fetchVars == <<fetch_pc, uploads, fetch_days, attempts, fetch_raised,
               fetch_data>>

\* two builds of the fallback narrative from one analytics output
VARIABLES
    nar_pc,             \* "idle", "call" (about to run) or "done"
    nar_analytics,      \* argument analytics of the _build_fallback_* builders
    nar_first,          \* the texts one process builds
    nar_second          \* the texts another process builds from the same dict

narVars == <<nar_pc, nar_analytics, nar_first, nar_second>>

\* a browser session of the Streamlit page  (app.py)
VARIABLES
    gate_pc,            \* "idle", "open" (no run yet), "wait" (page rendered)
                        \* or "rerun" (st.rerun() called)
    env_password,       \* os.getenv("APP_PASSWORD"), None if unset
    secrets_password,   \* st.secrets["APP_PASSWORD"], None if absent
    session_state,      \* st.session_state of the session
    widget_password,    \* what the Password input held in the last run
    clicked,            \* the button whose click started the last run
    page,               \* what the last run rendered
    pipeline_runs       \* calls of run_pipeline made so far

gateVars == <<gate_pc, env_password, secrets_password, session_state,
              widget_password, clicked, page, pipeline_runs>>

\* a call of _retry or of _retry_api
VARIABLES
    rt_pc,              \* "idle", "loop", "returned" or "raised"
    rt_script,          \* how the successive calls of func end
    rt_attempt,         \* the loop variable attempt
    rt_calls,           \* calls of func made so far
    rt_sleeps,          \* the waits made so far, in seconds
    rt_raised           \* the exception that left the function, if any

retryVars == <<rt_pc, rt_script, rt_attempt, rt_calls, rt_sleeps, rt_raised>>

\* a call of deduplicate_handles, and a second one on its result
VARIABLES
    dd_pc,              \* "idle", "call" (about to run), "done" or "again"
    dd_channel,         \* argument channel
    dd_competitors,     \* argument competitors
    dd_result,          \* (unique_competitors, warnings) returned
    dd_again            \* the same, returned for (channel, unique_competitors)

dedupVars == <<dd_pc, dd_channel, dd_competitors, dd_result, dd_again>>

\* the variables of the calls modelled further down
laterVars == <<narVars, gateVars, retryVars, dedupVars>>

vars == <<pipeVars, engVars, scoreVars, anVars, fetchVars, laterVars>>

\* the variables run_pipeline does not touch
outsidePipeline == <<engVars, scoreVars, anVars, fetchVars, laterVars>>

NarIdle ==
    /\ nar_pc = "idle"
    /\ nar_analytics = NoneDict
    /\ nar_first = NoneDict
    /\ nar_second = NoneDict

GateIdle ==
    /\ gate_pc = "idle"
    /\ env_password = None
    /\ secrets_password = None
    /\ session_state = EmptyDict
    /\ widget_password = ""
    /\ clicked = None
    /\ page = None
    /\ pipeline_runs = 0

RetryIdle ==
    /\ rt_pc = "idle"
    /\ rt_script = <<>>
    /\ rt_attempt = 0
    /\ rt_calls = 0
    /\ rt_sleeps = <<>>
    /\ rt_raised = NoError

DedupIdle ==
    /\ dd_pc = "idle"
    /\ dd_channel = <<>>
    /\ dd_competitors = <<>>
    /\ dd_result = NoneDict
    /\ dd_again = NoneDict

LaterIdle == NarIdle /\ GateIdle /\ RetryIdle /\ DedupIdle

FetchIdle ==
    /\ fetch_pc = "idle"
    /\ uploads = <<>>
    /\ fetch_days = 0
    /\ attempts = <<>>
    /\ fetch_raised = <<>>
    /\ fetch_data = NoneDict

AnIdle ==
    /\ an_pc = "idle"
    /\ an_op = None
    /\ raw_data = NoneDict
    /\ an_raised = NoError
    /\ an_result = NoneDict

EngIdle ==
    /\ eng_pc = "idle"
    /\ eng_video = NoneDict
    /\ eng_result = ZeroQuot

ScoreIdle ==
    /\ score_pc = "idle"
    /\ period_videos = <<>>
    /\ baseline_videos = <<>>
    /\ scored = <<>>

PipeIdle ==
    /\ pc = "idle"
    /\ channel = <<>>
    /\ input_competitors = <<>>
    /\ skip_slides = FALSE
    /\ youtube_key = FALSE
    /\ competitors = <<>>
    /\ idx = 0
    /\ events = <<>>
    /\ calls = <<>>
    /\ total_videos = 0
    /\ failed_channels = <<>>
    /\ channel_data = NoneDict
    /\ competitors_data = <<>>
    /\ analytics = NoneDict
    /\ insights = NoneDict
    /\ report_url = None
    /\ narrative = NoneDict

Progress(tag) == [type |-> "progress", tag |-> tag]
Error(tag) == [type |-> "error", tag |-> tag]

\* a call of a collaborator: made after `at` events had been yielded, it
\* returned or raised
Call(op, handle, at, raised) ==
    [op |-> op, handle |-> handle, at |-> at, raised |-> raised]

PipeInit ==
    /\ pc = "start"
    /\ channel = PrimaryHandle
    /\ input_competitors \in InputLists
    /\ skip_slides \in BOOLEAN
    /\ youtube_key \in BOOLEAN
    /\ competitors = input_competitors
    /\ idx = 0
    /\ events = <<>>
    /\ calls = <<>>
    /\ total_videos = 0
    /\ failed_channels = <<>>
    /\ channel_data = NoneDict
    /\ competitors_data = <<>>
    /\ analytics = NoneDict
    /\ insights = NoneDict
    /\ report_url = None
    /\ narrative = NoneDict

\* ValidationError without the upper limit on the competitor count
ValidationError_NoMax(key, comps, unique) ==
    IF ~key THEN "no_api_key"
    ELSE IF Len(comps) < MinCompetitors THEN "too_few"
    ELSE IF Len(unique) < MinCompetitors THEN "too_few_unique"
    ELSE ""

\* lines 56-76: the check that ends the run before any fetch, as the tag of
\* its error event ("" when the run goes on)
ValidationError(key, comps, unique) ==
    IF ~key THEN "no_api_key"
    ELSE IF Len(comps) < MinCompetitors THEN "too_few"
    ELSE IF Len(comps) > MaxCompetitors THEN "too_many"
    ELSE IF Len(unique) < MinCompetitors THEN "too_few_unique"
    ELSE ""

\* lines 52-83: environment, validation, de-duplication
Validate ==
    /\ pc = "start"
    /\ LET dedup == deduplicate_handles(channel, competitors)
           warned == [i \in 1..Len(dedup.warnings) |-> Progress("duplicate")]
           err == ValidationError(youtube_key, competitors, dedup.unique)
       IN  IF err \in {"no_api_key", "too_few", "too_many"}
           THEN /\ events' = Append(events, Error(err))
                /\ pc' = "done"
                /\ UNCHANGED competitors
           ELSE IF err = "too_few_unique"
           THEN /\ competitors' = dedup.unique
                /\ events' = (events \o warned) \o <<Error(err)>>
                /\ pc' = "done"
           ELSE /\ competitors' = dedup.unique
                /\ events' = (events \o warned) \o
                       <<Progress("channel"), Progress("competitors"),
                         Progress("window")>>
                /\ pc' = "fetch_primary"
    /\ UNCHANGED <<channel, input_competitors, skip_slides, youtube_key, idx,
                   calls, total_videos, failed_channels, channel_data,
                   competitors_data, analytics, insights, report_url,
                   narrative>>
    /\ UNCHANGED outsidePipeline

\* PrimaryRole with the primary channel tagged like a competitor
PrimaryRole_AsCompetitor == "competitor"

\* line 89: the role given to the primary channel's data
PrimaryRole == "channel"

\* line 104: the role given to a competitor's data
CompetitorRole == "competitor"

\* PrimaryFetchFailed handled like a failed competitor: warn and go on
PrimaryFetchFailed_GoOn ==
    /\ events' = events \o <<Progress("fetching"), Progress("skipping")>>
    /\ pc' = "fetch_competitors"
    /\ idx' = 1
    /\ UNCHANGED <<channel_data, total_videos>>

\* lines 94-96: the handler of a failed primary fetch
PrimaryFetchFailed ==
    /\ events' = events \o <<Progress("fetching"), Error("primary_failed")>>
    /\ pc' = "done"
    /\ UNCHANGED <<channel_data, total_videos, idx>>

\* lines 85-96: the primary channel; raised says whether the try block
\* raises
FetchPrimary ==
    /\ pc = "fetch_primary"
    /\ \E raised \in BOOLEAN :
          /\ calls' = Append(calls, Call("fetch_channel_data", channel,
                                         Len(events) + 1, raised))
          /\ IF ~raised
             THEN LET data == SetField(FetchedData(channel), "role",
                                       PrimaryRole)
                  IN  /\ channel_data' = data
                      /\ total_videos' = total_videos
                            + Len(data["period_videos"])
                            + Len(data["baseline_videos"])
                      /\ events' = events \o
                            <<Progress("fetching"), Progress("fetched")>>
                      /\ pc' = "fetch_competitors"
                      /\ idx' = 1
             ELSE PrimaryFetchFailed
    /\ UNCHANGED <<channel, input_competitors, skip_slides, youtube_key,
                   competitors, failed_channels, competitors_data, analytics,
                   insights, report_url, narrative>>
    /\ UNCHANGED outsidePipeline

\* CompetitorFetchFailed handled like a failed primary: error and stop
CompetitorFetchFailed_Fatal(comp) ==
    /\ events' = events \o <<Progress("fetching"), Error("competitor_failed")>>
    /\ failed_channels' = Append(failed_channels, comp)
    /\ pc' = "done"
    /\ UNCHANGED <<idx, total_videos, competitors_data>>

\* CompetitorFetchFailed without the entry in failed_channels
CompetitorFetchFailed_Unrecorded(comp) ==
    /\ events' = events \o <<Progress("fetching"), Progress("skipping")>>
    /\ idx' = idx + 1
    /\ UNCHANGED <<pc, total_videos, competitors_data, failed_channels>>

\* lines 110-112: the handler of a failed competitor fetch
CompetitorFetchFailed(comp) ==
    /\ events' = events \o <<Progress("fetching"), Progress("skipping")>>
    /\ failed_channels' = Append(failed_channels, comp)
    /\ idx' = idx + 1
    /\ UNCHANGED <<pc, total_videos, competitors_data>>

\* lines 100-112: one iteration of the competitor loop
FetchCompetitor ==
    /\ pc = "fetch_competitors"
    /\ idx <= Len(competitors)
    /\ LET comp == competitors[idx]
       IN  \E raised \in BOOLEAN :
             /\ calls' = Append(calls, Call("fetch_channel_data", comp,
                                            Len(events) + 1, raised))
             /\ IF ~raised
                THEN LET data == SetField(FetchedData(comp), "role",
                                          CompetitorRole)
                     IN  /\ total_videos' = total_videos
                               + Len(data["period_videos"])
                               + Len(data["baseline_videos"])
                         /\ events' = events \o
                               <<Progress("fetching"), Progress("fetched")>>
                         /\ competitors_data' =
                               Append(competitors_data, data)
                         /\ idx' = idx + 1
                         /\ UNCHANGED <<pc, failed_channels>>
                ELSE CompetitorFetchFailed(comp)
    /\ UNCHANGED <<channel, input_competitors, skip_slides, youtube_key,
                   competitors, channel_data, analytics, insights,
                   report_url, narrative>>
    /\ UNCHANGED outsidePipeline

\* LoopDone one iteration early
LoopDone_OneEarly == idx >= Len(competitors)

\* line 100: the for loop has gone through every competitor
LoopDone == idx > Len(competitors)

\* lines 126-143: what saving the two files does. Creating tmp_dir or
\* writing raw_data.json raises (lines 130-135, before the analytics), or
\* writing analytics.json raises (lines 141-143, after them), or both files
\* are written. Neither write stands in a try block.
WriteOutcomes == {"written", "raw_data_raised", "analytics_raised"}

\* lines 114-152: the check after the loop, the two files and the
\* analytics; an exception of a write leaves the generator (pc "raised")
RunAnalytics ==
    /\ pc = "fetch_competitors"
    /\ LoopDone
    /\ IF Len(competitors_data) < MinCompetitors
       THEN /\ events' = Append(events, Error("too_few_fetched"))
            /\ pc' = "done"
            /\ UNCHANGED <<calls, analytics>>
       ELSE \E outcome \in WriteOutcomes :
              IF outcome = "raw_data_raised"
              THEN /\ pc' = "raised"
                   /\ UNCHANGED <<events, calls, analytics>>
              ELSE LET output == [days |-> DefaultDays,
                                  channel |-> channel_data,
                                  competitors |-> competitors_data]
                       result == process_all(output)
                       leaderboard ==
                           result["comparative"]["cross_channel_leaderboard"]
                   IN  /\ calls' = Append(calls, Call("process_all", <<>>,
                                                      Len(events) + 1, FALSE))
                       /\ analytics' = result
                       /\ events' = events \o
                             <<Progress("running_analytics")>> \o
                             (IF outcome = "written" /\ leaderboard # <<>>
                              THEN <<Progress("top_performer"),
                                     Progress("highest_outlier"),
                                     Progress("outlier_detail")>>
                              ELSE <<>>)
                       /\ pc' = IF outcome = "written"
                                THEN "insights" ELSE "raised"
    /\ UNCHANGED <<channel, input_competitors, skip_slides, youtube_key,
                   competitors, idx, total_videos, failed_channels,
                   channel_data, competitors_data, insights, report_url,
                   narrative>>
    /\ UNCHANGED outsidePipeline

\* InsightsFailed ending the run with an error event
InsightsFailed_Fatal ==
    /\ insights' = NoneDict
    /\ events' = events \o <<Progress("ai_start"), Error("ai_failed")>>
    /\ pc' = "done"

\* lines 166-169: the handler of a failed narrative generation
InsightsFailed ==
    /\ insights' = NoneDict
    /\ events' = events \o
          <<Progress("ai_start"), Progress("ai_failed"),
            Progress("ai_fallback")>>
    /\ pc' = "report"

\* lines 154-171: the narrative; anthropic_key is read from the environment
\* here, raised says whether the try block raises
GenerateInsights ==
    /\ pc = "insights"
    /\ \E anthropic_key \in BOOLEAN :
          IF anthropic_key
          THEN \E raised \in BOOLEAN :
                 /\ calls' = Append(calls, Call("generate_insights", <<>>,
                                                Len(events) + 1, raised))
                 /\ IF ~raised
                    THEN \E v \in InsightsValues :
                           /\ insights' = v
                           /\ events' = events \o
                                 <<Progress("ai_start"), Progress("ai_done")>>
                           /\ pc' = "report"
                    ELSE InsightsFailed
          ELSE /\ events' = Append(events, Progress("ai_skipped"))
               /\ pc' = "report"
               /\ UNCHANGED <<calls, insights>>
    /\ UNCHANGED <<channel, input_competitors, skip_slides, youtube_key,
                   competitors, idx, total_videos, failed_channels,
                   channel_data, competitors_data, analytics, report_url,
                   narrative>>
    /\ UNCHANGED outsidePipeline

\* ReportFailed ending the run with an error event
ReportFailed_Fatal(outcome) ==
    /\ events' = events \o <<Progress("report_start"), Error("report_failed")>>
    /\ pc' = "done"
    /\ UNCHANGED <<report_url, narrative>>

\* lines 181-186: the handlers of a failed report generation
ReportFailed(outcome) ==
    /\ events' = events \o
          <<Progress("report_start"),
            Progress(IF outcome = "Exception"
                     THEN "report_failed" ELSE "report_skipped")>>
    /\ pc' = "summary"
    /\ UNCHANGED <<report_url, narrative>>

\* lines 173-188: the report
GenerateReport ==
    /\ pc = "report"
    /\ IF ~skip_slides
       THEN \E outcome \in ReportOutcomes :
              /\ calls' = Append(calls, Call("generate_report", <<>>,
                                    Len(events) + 1, outcome # "url"))
              /\ IF outcome = "url"
                 THEN /\ report_url' = "url"
                      /\ narrative' =
                            [overview |-> comparative_source(insights),
                             trends |-> comparative_source(insights),
                             gaps |-> comparative_source(insights),
                             takeaways |-> takeaways_source(insights)]
                      /\ events' = events \o
                            <<Progress("report_start"),
                              Progress("report_url")>>
                      /\ pc' = "summary"
                 ELSE ReportFailed(outcome)
       ELSE /\ events' = Append(events, Progress("slides_skipped"))
            /\ pc' = "summary"
            /\ UNCHANGED <<calls, report_url, narrative>>
    /\ UNCHANGED <<channel, input_competitors, skip_slides, youtube_key,
                   competitors, idx, total_videos, failed_channels,
                   channel_data, competitors_data, analytics, insights>>
    /\ UNCHANGED outsidePipeline

\* lines 190-203: the summary and the result event
Finish ==
    /\ pc = "summary"
    /\ LET all_channels == 1 + Len(competitors_data)
           summary == [channels_fetched |-> all_channels,
                       failed_channels |-> failed_channels,
                       total_videos |-> total_videos,
                       quota_estimate |-> all_channels * 6,
                       output_path |-> "raw_data.json",
                       report_url |-> report_url]
       IN  events' = Append(events,
                            [type |-> "result", tag |-> "result",
                             report_url |-> report_url,
                             summary |-> summary])
    /\ pc' = "done"
    /\ UNCHANGED <<channel, input_competitors, skip_slides, youtube_key,
                   competitors, idx, calls, total_videos, failed_channels,
                   channel_data, competitors_data, analytics, insights,
                   report_url, narrative>>
    /\ UNCHANGED outsidePipeline

PipeNext ==
    \/ Validate
    \/ FetchPrimary
    \/ FetchCompetitor
    \/ RunAnalytics
    \/ GenerateInsights
    \/ GenerateReport
    \/ Finish

Init == PipeInit /\ EngIdle /\ ScoreIdle /\ AnIdle /\ FetchIdle /\ LaterIdle

Next == PipeNext

Spec == Init /\ [][Next]_vars

\* ------------------------------------------------------------------------
\* Properties of run_pipeline
\* ------------------------------------------------------------------------

NoEvent(type) == \A i \in DOMAIN events : events[i].type # type
CountEvents(type) ==
    Cardinality({ i \in DOMAIN events : events[i].type = type })
LastEventIs(type) == events # <<>> /\ events[Len(events)].type = type

CallsOf(op) == { i \in DOMAIN calls : calls[i].op = op }
NumFetches == Cardinality(CallsOf("fetch_channel_data"))

\* the primary fetch returned, and the competitor fetches that returned
PrimaryFetched ==
    calls # <<>> /\ calls[1].op = "fetch_channel_data" /\ ~calls[1].raised
FetchedCompetitors ==
    { i \in CallsOf("fetch_channel_data") : i > 1 /\ ~calls[i].raised }

\* the run was cut short: an error event is its last, nothing was analysed
Aborted ==
    /\ pc = "done"
    /\ LastEventIs("error")
    /\ CountEvents("error") = 1
    /\ NoEvent("result")
    /\ IsNone(analytics)

\* past the analytics the run is not stuck: it has ended with the result
\* event, or its next step can be taken
EndsWithResult ==
    /\ pc \in {"insights", "report", "summary", "done"}
    /\ pc = "done" => LastEventIs("result")
    /\ pc # "done" => ENABLED (GenerateInsights \/ GenerateReport \/ Finish)

\* C1: when the fetch of the primary channel raises, the run emits an error
\* event and stops: that fetch stays the only call (no competitor fetch, no
\* analytics, no narrative, no report) and no result event is emitted.
PrimaryFetchRaised ==
    calls # <<>> /\ calls[1].op = "fetch_channel_data" /\ calls[1].raised

C1_PrimaryFailureFatal ==
    PrimaryFetchRaised =>
        /\ Aborted
        /\ Len(calls) = 1
        /\ calls[1].handle = channel
        /\ IsNone(insights)
        /\ IsNone(narrative)
        /\ report_url = None

C1_Witness == PrimaryFetchRaised /\ pc = "done"

\* C2: a competitor whose fetch raises gets a warning progress event and is
\* dropped, and the loop goes on with the next competitor; once every
\* competitor was attempted the run aborts with an error event exactly when
\* fewer than 4 competitors were fetched.
C2_CompetitorFailureSkips ==
    /\ \A i \in CallsOf("fetch_channel_data") :
          (i > 1 /\ calls[i].raised) =>
              /\ events[calls[i].at + 1].type = "progress"
              /\ events[calls[i].at + 1].tag = "skipping"
              /\ \E k \in DOMAIN failed_channels :
                    failed_channels[k] = calls[i].handle
              /\ \A k \in DOMAIN competitors_data :
                    competitors_data[k]["channel_id"]
                        # Normalize(calls[i].handle)
    /\ \A i \in CallsOf("fetch_channel_data") :
          i > 1 => calls[i].handle = competitors[i - 1]
    /\ (PrimaryFetched /\ NumFetches < 1 + Len(competitors)) =>
          (pc = "fetch_competitors" /\ ENABLED FetchCompetitor)
    /\ (PrimaryFetched /\ NumFetches = 1 + Len(competitors)
            /\ pc # "fetch_competitors") =>
          IF Cardinality(FetchedCompetitors) < 4
          THEN Aborted
          ELSE /\ NoEvent("error")
               /\ pc # "raised" => ~IsNone(analytics)

C2_Witness ==
    /\ pc = "done"
    /\ LastEventIs("result")
    /\ \E i \in CallsOf("fetch_channel_data") :
          i > 1 /\ calls[i].raised /\ i < NumFetches

\* C3: when generate_insights raises, or the API key is absent, the run
\* emits no error event, goes on with insights = None, a rendered report
\* takes overview, trends, gaps and takeaways from the fallback functions,
\* and the run ends with a result event.
InsightsRaised ==
    \E i \in CallsOf("generate_insights") : calls[i].raised

InsightsKeyAbsent ==
    /\ pc \in {"report", "summary", "done"}
    /\ ~IsNone(analytics)
    /\ CallsOf("generate_insights") = {}

C3_NarrativeFailureNotFatal ==
    (InsightsRaised \/ InsightsKeyAbsent) =>
        /\ NoEvent("error")
        /\ IsNone(insights)
        /\ ~IsNone(narrative) =>
              /\ narrative["overview"] = "fallback"
              /\ narrative["trends"] = "fallback"
              /\ narrative["gaps"] = "fallback"
              /\ narrative["takeaways"] = "fallback"
        /\ EndsWithResult

C3_Witness ==
    InsightsRaised /\ pc = "done" /\ ~IsNone(narrative)

\* C4: when generate_report raises, the run emits no error event and ends
\* with a result event whose report_url is null.
ReportRaised ==
    \E i \in CallsOf("generate_report") : calls[i].raised

C4_RenderFailureNotFatal ==
    ReportRaised =>
        /\ ~IsNone(analytics)
        /\ NoEvent("error")
        /\ EndsWithResult
        /\ pc = "done" =>
              /\ events[Len(events)]["report_url"] = None
              /\ events[Len(events)]["summary"]["report_url"] = None

C4_Witness == ReportRaised /\ pc = "done"

\* C5: the stages run in the order fetch primary, fetch each competitor in
\* de-duplicated input order, analytics, narrative, report: the analytics
\* start only after every competitor had its fetch attempt, no fetch
\* follows them, and the report starts only after the narrative step has
\* finished or was skipped.
StageRank(op) ==
    CASE op = "fetch_channel_data" -> 1
      [] op = "process_all" -> 2
      [] op = "generate_insights" -> 3
      [] op = "generate_report" -> 4

NarrativeStepOver(k) ==
    \E j \in 1..k : events[j].tag \in {"ai_done", "ai_fallback", "ai_skipped"}

C5_StageOrder ==
    LET unique == deduplicate_handles(channel, input_competitors).unique
    IN  /\ \A i, j \in DOMAIN calls :
              i < j =>
                  /\ StageRank(calls[i].op) <= StageRank(calls[j].op)
                  /\ StageRank(calls[j].op) > 1 => calls[i].op # calls[j].op
        /\ \A i \in CallsOf("fetch_channel_data") :
              calls[i].handle = (<<channel>> \o unique)[i]
        /\ \A i \in CallsOf("process_all") :
              /\ i = 2 + Len(unique)
              /\ events[calls[i].at].tag = "running_analytics"
        /\ \A i \in CallsOf("generate_report") :
              /\ CallsOf("process_all") # {}
              /\ NarrativeStepOver(calls[i].at - 1)

C5_Witness ==
    /\ pc = "done"
    /\ CallsOf("generate_insights") # {}
    /\ CallsOf("generate_report") # {}
    /\ Len(input_competitors) > NumFetches - 1

\* C6: a competitor list with fewer than 4 or more than 7 entries, or with
\* fewer than 4 entries left after de-duplication, gets an error event and
\* no fetch; every result event comes from a run that analysed between 4
\* and 7 competitors.
NumUniqueInput ==
    Cardinality({ Normalize(input_competitors[i]) :
                    i \in DOMAIN input_competitors }
                \ {Normalize(channel)})

BadCompetitorCount ==
    \/ Len(input_competitors) < 4
    \/ Len(input_competitors) > 7
    \/ NumUniqueInput < 4

C6_CompetitorCountEnforced ==
    /\ BadCompetitorCount =>
          /\ calls = <<>>
          /\ pc \in {"start", "done"}
          /\ pc = "done" => Aborted
    /\ \A i \in DOMAIN events :
          events[i].type = "result" =>
              /\ ~IsNone(analytics)
              /\ Len(analytics["competitors"]) \in 4..7

C6_Witness ==
    /\ pc = "done"
    /\ Len(input_competitors) = 7
    /\ NumUniqueInput < 4
    /\ Aborted

\* C7: in a run that produced analytics, exactly one channel summary has
\* the primary channel's role and every other one has role "competitor".
\* The role the code gives the primary channel is "channel".
AllSummaries == <<analytics["channel"]>> \o analytics["competitors"]

RoleCount(role) ==
    Cardinality({ i \in DOMAIN AllSummaries : AllSummaries[i]["role"] = role })

\* the claim as stated: the primary channel's role is "primary"
C7_RolePrimary ==
    ~IsNone(analytics) =>
        /\ RoleCount("primary") = 1
        /\ RoleCount("competitor") = Len(AllSummaries) - 1

C7_RoleChannel ==
    ~IsNone(analytics) =>
        /\ RoleCount("channel") = 1
        /\ analytics["channel"]["role"] = "channel"
        /\ RoleCount("competitor") = Len(AllSummaries) - 1

C7_Witness ==
    ~IsNone(analytics) /\ Len(AllSummaries) > 4 /\ pc = "done"

\* ------------------------------------------------------------------------
\* A call of calculate_engagement on any video
\* ------------------------------------------------------------------------

\* a count that may be missing from the dict: -1 stands for the missing key
OptCount(max) == {-1} \cup (0..max)

VideoWith(views, likes, comments) ==
    [k \in {"video_id", "title"}
            \cup (IF views >= 0 THEN {"views"} ELSE {})
            \cup (IF likes >= 0 THEN {"likes"} ELSE {})
            \cup (IF comments >= 0 THEN {"comments"} ELSE {}) |->
        CASE k = "views" -> views
          [] k = "likes" -> likes
          [] k = "comments" -> comments
          [] OTHER -> "v"]

EngVideos ==
    { VideoWith(v, l, c) : v \in OptCount(MaxViews), l \in OptCount(MaxLikes),
                           c \in OptCount(MaxComments) }

EngInit ==
    /\ eng_pc = "call"
    /\ eng_video \in EngVideos
    /\ eng_result = ZeroQuot
    /\ PipeIdle
    /\ ScoreIdle
    /\ AnIdle
    /\ FetchIdle
    /\ LaterIdle

CallEngagement ==
    /\ eng_pc = "call"
    /\ eng_result' = calculate_engagement(eng_video)
    /\ eng_pc' = "done"
    /\ UNCHANGED <<eng_video, pipeVars, scoreVars, anVars, fetchVars,
                  laterVars>>

EngNext == CallEngagement

SpecEngagement == EngInit /\ [][EngNext]_vars

\* ------------------------------------------------------------------------
\* A call of calculate_outlier_scores
\* ------------------------------------------------------------------------

\* the period videos to draw from
PeriodSamples ==
    { [video_id |-> "p1", title |-> "one", views |-> 500, likes |-> 20,
       comments |-> 5, duration_seconds |-> 600],
      [video_id |-> "p2", title |-> "two", views |-> 1, likes |-> 1],
      [video_id |-> "p3", title |-> "three", views |-> 3, likes |-> 0,
       comments |-> 0, duration_seconds |-> 60],
      [video_id |-> "p4", title |-> "four", views |-> 50, likes |-> 2,
       comments |-> 1, duration_seconds |-> 200],
      [video_id |-> "p5", title |-> "five", views |-> 150, comments |-> 4],
      [video_id |-> "p6", title |-> "six", views |-> 0, likes |-> 3,
       comments |-> 1, duration_seconds |-> 30],
      [video_id |-> "p7", title |-> "seven", likes |-> 2, comments |-> 2] }

RECURSIVE SeqsUpTo(_, _)
SeqsUpTo(S, n) ==
    IF n = 0 THEN { <<>> }
    ELSE LET shorter == SeqsUpTo(S, n - 1)
         IN  shorter \cup { Append(s, x) : s \in shorter, x \in S }

PeriodLists == SeqsUpTo(PeriodSamples, MaxPeriodLen)

\* the baseline video at position i of a baseline list has 100 * i, 400 or
\* 0 views
BaselineVideo(views) ==
    [video_id |-> "b", title |-> "base", views |-> views, likes |-> 0,
     comments |-> 0, duration_seconds |-> 600]

RECURSIVE BaselinesOfLen(_)
BaselinesOfLen(n) ==
    IF n = 0 THEN { <<>> }
    ELSE { Append(s, BaselineVideo(v)) :
             s \in BaselinesOfLen(n - 1), v \in {100 * n, 400, 0} }

BaselineLists == UNION { BaselinesOfLen(n) : n \in 0..MaxBaselineLen }

ScoreInit ==
    /\ score_pc = "call"
    /\ period_videos \in PeriodLists
    /\ baseline_videos \in BaselineLists
    /\ scored = <<>>
    /\ PipeIdle
    /\ EngIdle
    /\ AnIdle
    /\ FetchIdle
    /\ LaterIdle

CallOutlierScores ==
    /\ score_pc = "call"
    /\ scored' = calculate_outlier_scores(period_videos, baseline_videos)
    /\ period_videos' = PeriodAfterScoring(period_videos, baseline_videos)
    /\ baseline_videos' =
            BaselineAfterScoring(period_videos, baseline_videos)
    /\ score_pc' = "done"
    /\ UNCHANGED <<pipeVars, engVars, anVars, fetchVars, laterVars>>

ScoreNext == CallOutlierScores

SpecScore == ScoreInit /\ [][ScoreNext]_vars

\* ------------------------------------------------------------------------
\* Properties of calculate_outlier_scores and calculate_engagement
\* ------------------------------------------------------------------------

\* the views of a video, a missing count being 0
ViewsOf(video) == IF "views" \in DOMAIN video THEN video["views"] ELSE 0

\* the k-th smallest of the baseline views: fewer than k views lie below
\* it, at least k do not lie above it
KthBaselineView(k) ==
    LET n == Len(baseline_videos)
    IN  CHOOSE x \in { ViewsOf(baseline_videos[i]) : i \in 1..n } :
            /\ Cardinality({ i \in 1..n : ViewsOf(baseline_videos[i]) < x }) < k
            /\ Cardinality({ i \in 1..n : ViewsOf(baseline_videos[i]) <= x }) >= k

\* twice the median of the baseline views (not empty): twice the central
\* value, or the sum of the two central values
TwiceBaselineMedian ==
    LET n == Len(baseline_videos)
    IN  IF n % 2 = 1
        THEN 2 * KthBaselineView((n + 1) \div 2)
        ELSE KthBaselineView(n \div 2) + KthBaselineView((n \div 2) + 1)

\* hundredths is views / (twice / 2) rounded to 2 decimal places: no other
\* multiple of 0.01 is nearer to the quotient
IsQuotientRounded2(hundredths, views, twice) ==
    LET diff == hundredths * twice - 200 * views
    IN  2 * (IF diff < 0 THEN -diff ELSE diff) <= twice

BaselineViewsAre(views) ==
    /\ Len(baseline_videos) = Len(views)
    /\ \A i \in DOMAIN views : ViewsOf(baseline_videos[i]) = views[i]

\* C8: every scored period video has outlier_score = views / median of the
\* baseline views (the mean of the two central values for an even count)
\* rounded to 2 decimals, and exactly 0 when the baseline is empty or its
\* median is 0; the baseline <<100, 200, 300, 400>> gives a video with 500
\* views the score 2.0.
C8_OutlierScore ==
    score_pc = "done" =>
        /\ Len(scored) = Len(period_videos)
        /\ \A i \in DOMAIN scored :
              IF baseline_videos = <<>> \/ TwiceBaselineMedian = 0
              THEN scored[i]["outlier_score"] = 0
              ELSE IsQuotientRounded2(scored[i]["outlier_score"],
                                      ViewsOf(period_videos[i]),
                                      TwiceBaselineMedian)
        /\ BaselineViewsAre(<<100, 200, 300, 400>>) =>
              \A i \in DOMAIN scored :
                  ViewsOf(period_videos[i]) = 500 =>
                      scored[i]["outlier_score"] = 200

C8_Witness ==
    /\ score_pc = "done"
    /\ BaselineViewsAre(<<100, 200, 300, 400>>)
    /\ Len(scored) = 2
    /\ ViewsOf(period_videos[2]) = 500
    /\ scored[2]["outlier_score"] = 200

\* C9: calculate_engagement returns (likes + comments) / views * 100 when
\* views > 0, a missing likes or comments count being 0, and exactly 0.0
\* when views is 0 or missing.
CountOf(video, key) == IF key \in DOMAIN video THEN video[key] ELSE 0

C9_Engagement ==
    eng_pc = "done" =>
        /\ eng_result.den > 0
        /\ IF "views" \in DOMAIN eng_video /\ eng_video["views"] > 0
           THEN eng_result.num * eng_video["views"] =
                    (CountOf(eng_video, "likes")
                        + CountOf(eng_video, "comments")) * 100
                    * eng_result.den
           ELSE eng_result.num = 0

C9_Witness ==
    /\ eng_pc = "done"
    /\ "views" \in DOMAIN eng_video
    /\ eng_video["views"] = 3
    /\ "likes" \notin DOMAIN eng_video
    /\ CountOf(eng_video, "comments") = 2
    /\ eng_result.num = 200 /\ eng_result.den = 3

\* C10: the list returned by calculate_outlier_scores is as long as
\* period_videos, and its i-th record is period_videos[i] with the two
\* fields engagement and outlier_score added and no other field changed.
C10_ScoringOneToOne ==
    score_pc = "done" =>
        /\ Len(scored) = Len(period_videos)
        /\ \A i \in DOMAIN scored :
              /\ DOMAIN scored[i] =
                    (DOMAIN period_videos[i])
                        \cup {"engagement", "outlier_score"}
              /\ \A k \in DOMAIN period_videos[i] :
                    scored[i][k] = period_videos[i][k]

C10_Witness ==
    /\ score_pc = "done"
    /\ Len(scored) = 2
    /\ period_videos[1]["video_id"] # period_videos[2]["video_id"]
    /\ scored[1]["video_id"] = period_videos[1]["video_id"]
    /\ DOMAIN period_videos[1] # DOMAIN period_videos[2]

\* ------------------------------------------------------------------------
\* A call of process_all, or of build_channel_summary on the primary channel
\* ------------------------------------------------------------------------

\* one video as get_video_details builds it  (youtube_api.py:204-214)
AVideo(id, views, likes, comments, duration) ==
    [video_id |-> id, title |-> id, published_at |-> "t", views |-> views,
     likes |-> likes, comments |-> comments, duration_seconds |-> duration]

ChannelKinds == {"none", "six", "eight", "nobase", "sparse", "hit"}

\* the period videos of a channel of each kind
SamplePeriod(kind) ==
    CASE kind = "none" -> <<>>
      [] kind = "six" ->
            << AVideo("s1", 100, 2, 1, 300), AVideo("s2", 400, 8, 4, 600),
               AVideo("s3", 400, 20, 0, 200), AVideo("s4", 100, 1, 0, 100),
               AVideo("s5", 100, 0, 0, 700), AVideo("s6", 100, 5, 5, 240) >>
      [] kind = "eight" ->
            << AVideo("e1", 50, 1, 0, 90), AVideo("e2", 800, 30, 10, 1200),
               AVideo("e3", 200, 7, 0, 400), AVideo("e4", 200, 2, 1, 400),
               AVideo("e5", 600, 20, 10, 800), AVideo("e6", 200, 0, 0, 250),
               AVideo("e7", 200, 5, 4, 181), AVideo("e8", 50, 1, 1, 45) >>
      [] kind = "nobase" ->
            << AVideo("n1", 300, 5, 4, 500), AVideo("n2", 100, 7, 0, 333) >>
      [] kind = "sparse" ->
            << [video_id |-> "x1", title |-> "x1", views |-> 300],
               [video_id |-> "x2", title |-> "x2", views |-> 0,
                likes |-> 3] >>
      [] kind = "hit" -> << AVideo("h1", 1200, 100, 20, 3600) >>

\* the views of the baseline videos of a channel of each kind
SampleBaselineViews(kind) ==
    CASE kind = "none" -> <<200>>
      [] kind = "six" -> <<100, 300>>
      [] kind = "eight" -> <<200, 900, 10>>
      [] kind = "nobase" -> <<>>
      [] kind = "sparse" -> <<300>>
      [] kind = "hit" -> <<200, 200, 50>>

\* the dict of a channel as run_pipeline hands it over: what
\* fetch_channel_data returns (youtube_api.py:259-267) with the role set
\* (pipeline.py:89, 104); the channel at position 0 is the primary one
SampleChannel(kind, position) ==
    LET views == SampleBaselineViews(kind)
        name == IF position = 0 THEN "primary"
                ELSE <<"comp1", "comp2", "comp3", "comp4">>[position]
    IN  [channel_id |-> name,
         channel_name |-> name,
         subscriber_count |-> IF kind = "sparse" THEN None ELSE 1000,
         total_views |-> 5000,
         uploads_playlist_id |-> name,
         role |-> IF position = 0 THEN PrimaryRole ELSE CompetitorRole,
         period_videos |-> SamplePeriod(kind),
         baseline_videos |->
            [i \in 1..Len(views) |-> AVideo("b", views[i], 0, 0, 600)]]

\* the sequences of at most n kinds
KindSeqs(n) == SeqsUpTo(ChannelKinds, n)

\* the analysis windows called with
DaysSamples == (1..7) \cup {10, 60}

\* raw_data as run_pipeline builds it  (pipeline.py:131-135)
RawData(primary, kinds, days) ==
    [channel |-> SampleChannel(primary, 0),
     competitors |-> [i \in 1..Len(kinds) |-> SampleChannel(kinds[i], i)],
     days |-> days]

\* every window with at most one competitor, every cohort with the
\* default window
WellFormedInputs ==
    { RawData(p, ks, d) :
        p \in ChannelKinds, ks \in KindSeqs(1), d \in DaysSamples }
    \cup { RawData(p, ks, DefaultDays) :
              p \in ChannelKinds, ks \in KindSeqs(MaxCohort) }

\* d without the field key
Without(d, key) == [k \in (DOMAIN d) \ {key} |-> d[k]]

\* raw with the field key dropped from its primary channel
WithoutChannelField(raw, key) ==
    [raw EXCEPT !["channel"] = Without(@, key)]

\* raw with the field key dropped from the period video at position i of
\* its primary channel
WithoutVideoField(raw, i, key) ==
    [raw EXCEPT !["channel"]["period_videos"][i] = Without(@, key)]

\* raw with the field key dropped from every baseline video of its primary
\* channel
WithoutBaselineField(raw, key) ==
    [raw EXCEPT !["channel"]["baseline_videos"] =
        [i \in 1..Len(@) |-> Without(@[i], key)]]

ChannelFields ==
    {"channel_id", "channel_name", "role", "subscriber_count",
     "period_videos", "baseline_videos"}

VideoFields ==
    {"title", "video_id", "views", "likes", "comments", "duration_seconds"}

\* inputs lacking one field: of raw_data, of the primary channel, of its
\* first or last period video, or of its baseline videos
MalformedInputs ==
    LET bases == { RawData(p, <<"hit">>, 10) : p \in {"six", "nobase"} }
    IN  UNION { { Without(raw, key) :
                    key \in {"channel", "competitors", "days"} }
                \cup { WithoutChannelField(raw, key) : key \in ChannelFields }
                \cup { WithoutVideoField(raw, i, key) :
                        i \in {1, Len(raw["channel"]["period_videos"])},
                        key \in VideoFields }
                \cup { WithoutBaselineField(raw, key) : key \in VideoFields }
              : raw \in bases }

AnInit ==
    /\ an_pc = "call"
    /\ an_op = None
    /\ raw_data \in WellFormedInputs \cup MalformedInputs
    /\ an_raised = NoError
    /\ an_result = NoneDict
    /\ PipeIdle
    /\ EngIdle
    /\ ScoreIdle
    /\ FetchIdle
    /\ LaterIdle

\* process_all(raw_data)
CallProcessAll ==
    /\ an_pc = "call"
    /\ an_op' = "process_all"
    /\ an_raised' = process_all_raises(raw_data)
    /\ an_result' = IF process_all_raises(raw_data) = NoError
                    THEN process_all(raw_data)
                    ELSE NoneDict
    /\ raw_data' = RawAfterProcessAll(raw_data)
    /\ an_pc' = "done"
    /\ UNCHANGED <<pipeVars, engVars, scoreVars, fetchVars, laterVars>>

\* build_channel_summary(raw_data["channel"], raw_data["days"])
CallBuildSummary ==
    /\ an_pc = "call"
    /\ "channel" \in DOMAIN raw_data
    /\ "days" \in DOMAIN raw_data
    /\ an_op' = "build_channel_summary"
    /\ an_raised' = build_channel_summary_raises(raw_data["channel"])
    /\ an_result' =
            IF build_channel_summary_raises(raw_data["channel"]) = NoError
            THEN build_channel_summary(raw_data["channel"], raw_data["days"])
            ELSE NoneDict
    /\ raw_data' =
            [raw_data EXCEPT
                !["channel"] = ChannelAfterSummary(raw_data["channel"])]
    /\ an_pc' = "done"
    /\ UNCHANGED <<pipeVars, engVars, scoreVars, fetchVars, laterVars>>

AnNext == CallProcessAll \/ CallBuildSummary

SpecAnalytics == AnInit /\ [][AnNext]_vars

\* ------------------------------------------------------------------------
\* Properties of build_channel_summary, build_comparative_data, process_all
\* ------------------------------------------------------------------------

Returned(op) == an_pc = "done" /\ an_op = op /\ an_raised = NoError

SummariesBuilt ==
    IF an_op = "process_all"
    THEN <<an_result["channel"]>> \o an_result["competitors"]
    ELSE <<an_result>>

\* the position in the scored list vs of the video with this id
PositionOf(vs, id) == CHOOSE k \in DOMAIN vs : vs[k]["video_id"] = id

\* top is the first n of vs in descending order of outlier_score, videos of
\* equal score in their order in vs
IsTopByOutlier(top, vs, n) ==
    LET At(i) == PositionOf(vs, top[i]["video_id"])
        chosen == { At(i) : i \in DOMAIN top }
    IN  /\ Len(top) = IF Len(vs) < n THEN Len(vs) ELSE n
        /\ \A i \in DOMAIN top :
              top[i]["outlier_score"] = vs[At(i)]["outlier_score"]
        /\ \A i, j \in DOMAIN top :
              i < j =>
                  \/ top[i]["outlier_score"] > top[j]["outlier_score"]
                  \/ /\ top[i]["outlier_score"] = top[j]["outlier_score"]
                     /\ At(i) < At(j)
        /\ \A k \in (DOMAIN vs) \ chosen :
              \A i \in DOMAIN top :
                  \/ vs[k]["outlier_score"] < top[i]["outlier_score"]
                  \/ /\ vs[k]["outlier_score"] = top[i]["outlier_score"]
                     /\ At(i) < k

\* C12: top_videos of every channel summary has min(5, number of scored
\* period videos) entries, in descending order of outlier_score, videos of
\* equal score in their order in period_videos; a video left out scores
\* less than every entry, or the same as the entries that precede it in
\* period_videos.
C12_TopVideos ==
    an_pc = "done" /\ an_raised = NoError =>
        \A c \in DOMAIN SummariesBuilt :
            IsTopByOutlier(SummariesBuilt[c]["top_videos"],
                           SummariesBuilt[c]["period_videos"], 5)

C12_Witness ==
    /\ Returned("build_channel_summary")
    /\ Len(an_result["period_videos"]) = 8
    /\ [i \in 1..5 |-> an_result["top_videos"][i]["video_id"]]
           = <<"e2", "e5", "e3", "e4", "e6">>
    /\ an_result["period_videos"][7]["outlier_score"]
           = an_result["top_videos"][5]["outlier_score"]

\* the position in the cohort [primary] + competitors of the channel with
\* this name
CohortPosition(name) ==
    CHOOSE c \in DOMAIN SummariesBuilt :
        SummariesBuilt[c]["channel_name"] = name

\* ranking lists every channel of the cohort once, in non-increasing order
\* of the field key, channels of equal key in cohort order
IsStableRanking(ranking, key) ==
    /\ Len(ranking) = Len(SummariesBuilt)
    /\ \A c \in DOMAIN SummariesBuilt :
          Cardinality({ i \in DOMAIN ranking :
              ranking[i]["channel_name"] = SummariesBuilt[c]["channel_name"] })
              = 1
    /\ \A i, j \in DOMAIN ranking :
          i < j =>
              \/ ranking[i][key] > ranking[j][key]
              \/ /\ ranking[i][key] = ranking[j][key]
                 /\ CohortPosition(ranking[i]["channel_name"])
                        < CohortPosition(ranking[j]["channel_name"])

\* C13: views_ranking, engagement_ranking and outlier_ranking each list
\* every channel of [primary] + competitors exactly once with that
\* channel's total_period_views or avg_engagement (and its
\* highest_outlier_score), in non-increasing order of it, channels of equal
\* key in cohort order.
C13_StableRankings ==
    Returned("process_all") =>
        LET comparative == an_result["comparative"]
        IN  /\ IsStableRanking(comparative["views_ranking"],
                               "total_period_views")
            /\ IsStableRanking(comparative["engagement_ranking"],
                               "avg_engagement")
            /\ IsStableRanking(comparative["outlier_ranking"],
                               "highest_outlier_score")
            /\ \A i \in DOMAIN SummariesBuilt :
                  LET byViews == comparative["views_ranking"][i]
                      byEng == comparative["engagement_ranking"][i]
                  IN  /\ byViews["total_period_views"] =
                            SummariesBuilt[
                                CohortPosition(byViews["channel_name"])]
                                ["total_period_views"]
                      /\ byEng["avg_engagement"] =
                            SummariesBuilt[
                                CohortPosition(byEng["channel_name"])]
                                ["avg_engagement"]

C13_Witness ==
    /\ Returned("process_all")
    /\ Len(SummariesBuilt) = 3
    /\ an_result["comparative"]["views_ranking"] =
          << [channel_name |-> "comp1", total_period_views |-> 2300],
             [channel_name |-> "primary", total_period_views |-> 1200],
             [channel_name |-> "comp2", total_period_views |-> 1200] >>

\* C14: the highest_outlier_score of every entry of outlier_ranking is the
\* outlier_score of the first of that channel's top_videos, no scored
\* period video of the channel has a higher outlier_score and one has that
\* one; it is 0 for a channel without period videos.
C14_HighestOutlierScore ==
    Returned("process_all") =>
        \A i \in DOMAIN an_result["comparative"]["outlier_ranking"] :
            LET entry == an_result["comparative"]["outlier_ranking"][i]
                summary == SummariesBuilt[CohortPosition(entry["channel_name"])]
                videos == summary["period_videos"]
                highest == entry["highest_outlier_score"]
            IN  IF videos = <<>>
                THEN highest = 0
                ELSE /\ highest = summary["top_videos"][1]["outlier_score"]
                     /\ \A k \in DOMAIN videos :
                           videos[k]["outlier_score"] <= highest
                     /\ \E k \in DOMAIN videos :
                           videos[k]["outlier_score"] = highest

C14_Witness ==
    /\ Returned("process_all")
    /\ an_result["comparative"]["outlier_ranking"] =
          << [channel_name |-> "comp1", highest_outlier_score |-> 400],
             [channel_name |-> "primary", highest_outlier_score |-> 0] >>
    /\ an_result["channel"]["period_videos"] = <<>>
    /\ an_result["competitors"][1]["period_videos"][1]["outlier_score"] = 25

\* C15: top_performer is never None; it names the channel at the head of
\* views_ranking, no channel of the cohort has more total_period_views
\* and none with as many stands earlier in the cohort; without competitors
\* it is the primary channel, and every leaderboard entry is a period video
\* of the primary channel.
C15_TopPerformer ==
    Returned("process_all") =>
        LET comparative == an_result["comparative"]
            top == comparative["top_performer"]
            board == comparative["cross_channel_leaderboard"]
            primary == an_result["channel"]
        IN  /\ top # None
            /\ top = comparative["views_ranking"][1]["channel_name"]
            /\ \A c \in DOMAIN SummariesBuilt :
                  LET mine == SummariesBuilt[CohortPosition(top)]
                                  ["total_period_views"]
                      theirs == SummariesBuilt[c]["total_period_views"]
                  IN  \/ theirs < mine
                      \/ theirs = mine /\ CohortPosition(top) <= c
            /\ an_result["competitors"] = <<>> =>
                  /\ top = primary["channel_name"]
                  /\ \A i \in DOMAIN board :
                        /\ board[i]["channel_name"] = primary["channel_name"]
                        /\ \E k \in DOMAIN primary["period_videos"] :
                              primary["period_videos"][k]["video_id"]
                                  = board[i]["video_id"]

C15_Witness ==
    /\ Returned("process_all")
    /\ Len(an_result["competitors"]) = 2
    /\ an_result["channel"]["total_period_views"] = 0
    /\ an_result["competitors"][1]["total_period_views"] = 1200
    /\ an_result["competitors"][2]["total_period_views"] = 1200
    /\ an_result["comparative"]["top_performer"] = "comp1"

\* the number of scored period videos of the channels before position c
PooledBefore(c) ==
    SumSeq([i \in 1..(c - 1) |-> Len(SummariesBuilt[i]["period_videos"])])

\* the place in the pool (cohort order, then video order) of the video a
\* leaderboard entry names
PoolPosition(entry) ==
    LET c == CohortPosition(entry["channel_name"])
    IN  PooledBefore(c) +
            PositionOf(SummariesBuilt[c]["period_videos"], entry["video_id"])

\* C16: cross_channel_leaderboard has min(10, number of scored period
\* videos of all channels) entries; each is a period video of the channel
\* it names, with that video's outlier_score; the entries are in
\* non-increasing order of outlier_score, equal scores in pooling order;
\* and a video that is left out has no higher outlier_score than any entry
\* and, at the same score, comes later in the pool.
C16_Leaderboard ==
    Returned("process_all") =>
        LET board == an_result["comparative"]["cross_channel_leaderboard"]
            total == PooledBefore(Len(SummariesBuilt) + 1)
            included == { PoolPosition(board[i]) : i \in DOMAIN board }
        IN  /\ Len(board) = IF total < 10 THEN total ELSE 10
            /\ \A i \in DOMAIN board :
                  LET videos ==
                          SummariesBuilt[
                              CohortPosition(board[i]["channel_name"])]
                              ["period_videos"]
                  IN  \E k \in DOMAIN videos :
                          /\ videos[k]["video_id"] = board[i]["video_id"]
                          /\ videos[k]["outlier_score"]
                                 = board[i]["outlier_score"]
            /\ \A i, j \in DOMAIN board :
                  i < j =>
                      \/ board[i]["outlier_score"] > board[j]["outlier_score"]
                      \/ /\ board[i]["outlier_score"]
                                = board[j]["outlier_score"]
                         /\ PoolPosition(board[i]) < PoolPosition(board[j])
            /\ \A c \in DOMAIN SummariesBuilt :
                  \A k \in DOMAIN SummariesBuilt[c]["period_videos"] :
                      PooledBefore(c) + k \notin included =>
                          \A i \in DOMAIN board :
                              LET score == SummariesBuilt[c]["period_videos"]
                                               [k]["outlier_score"]
                              IN  \/ score < board[i]["outlier_score"]
                                  \/ /\ score = board[i]["outlier_score"]
                                     /\ PoolPosition(board[i])
                                            < PooledBefore(c) + k

C16_Witness ==
    /\ Returned("process_all")
    /\ Len(an_result["channel"]["period_videos"]) = 6
    /\ Len(an_result["competitors"]) = 1
    /\ Len(an_result["competitors"][1]["period_videos"]) = 8
    /\ Len(an_result["comparative"]["cross_channel_leaderboard"]) = 10
    /\ an_result["comparative"]["cross_channel_leaderboard"][1]
           ["channel_name"] = "comp1"
    /\ an_result["comparative"]["cross_channel_leaderboard"][10]
           ["video_id"] = "s4"
    /\ an_result["channel"]["period_videos"][5]["outlier_score"] = 50
    /\ an_result["comparative"]["cross_channel_leaderboard"][10]
           ["outlier_score"] = 50

\* hundredths is num / den rounded to 2 decimal places: no other multiple
\* of 0.01 is nearer to the quotient
IsRatioRounded2(hundredths, num, den) ==
    LET diff == hundredths * den - 100 * num
    IN  2 * (IF diff < 0 THEN -diff ELSE diff) <= den

\* C17: with a window of days, upload_frequency of every channel summary
\* is video_count / max(days / 7, 1) rounded to 2 decimals: video_count
\* itself for a window of at most 7 days, 7 * video_count / days rounded
\* for a longer one; 2 videos in a window of 3 days give 2.0.
C17_UploadFrequency ==
    (an_pc = "done" /\ an_raised = NoError /\ "days" \in DOMAIN raw_data) =>
        \A c \in DOMAIN SummariesBuilt :
            LET frequency == SummariesBuilt[c]["upload_frequency"]
                count == SummariesBuilt[c]["video_count"]
                days == raw_data["days"]
            IN  /\ days <= 7 => frequency = 100 * count
                /\ days > 7 => IsRatioRounded2(frequency, 7 * count, days)
                /\ (days = 3 /\ count = 2) => frequency = 200

C17_Witness ==
    /\ Returned("build_channel_summary")
    /\ raw_data["days"] = 3
    /\ an_result["video_count"] = 2
    /\ an_result["upload_frequency"] = 200

\* the channel dicts handed to the call
InputChannels ==
    IF an_op = "process_all"
    THEN IF {"channel", "competitors"} \subseteq DOMAIN raw_data
         THEN <<raw_data["channel"]>> \o raw_data["competitors"]
         ELSE <<>>
    ELSE <<raw_data["channel"]>>

\* the positions of the channels handed over with an empty period list
EmptyChannels ==
    { c \in DOMAIN InputChannels :
        /\ "period_videos" \in DOMAIN InputChannels[c]
        /\ InputChannels[c]["period_videos"] = <<>> }

\* C18: a call handed a channel with no period videos returns (raises
\* nothing); that channel's summary has total_period_views, video_count,
\* avg_engagement, avg_duration and upload_frequency 0 and no top_videos,
\* and build_comparative_data ranks it with highest_outlier_score 0.
C18_EmptyChannel ==
    (an_pc = "done" /\ EmptyChannels # {}) =>
        /\ an_raised = NoError
        /\ \A c \in EmptyChannels :
              /\ SummariesBuilt[c]["total_period_views"] = 0
              /\ SummariesBuilt[c]["video_count"] = 0
              /\ SummariesBuilt[c]["avg_engagement"] = 0
              /\ SummariesBuilt[c]["avg_duration"] = 0
              /\ SummariesBuilt[c]["upload_frequency"] = 0
              /\ SummariesBuilt[c]["top_videos"] = <<>>
              /\ an_op = "process_all" =>
                    \E i \in DOMAIN an_result["comparative"]["outlier_ranking"] :
                        an_result["comparative"]["outlier_ranking"][i] =
                            [channel_name |->
                                 SummariesBuilt[c]["channel_name"],
                             highest_outlier_score |-> 0]

C18_Witness ==
    /\ Returned("process_all")
    /\ EmptyChannels = {1, 3}
    /\ an_result["competitors"][2]["avg_duration"] = 0
    /\ an_result["competitors"][1]["video_count"] = 8
    /\ an_result["comparative"]["top_performer"] = "comp1"

\* the channel dicts the call can reach in raw_data
ReachableChannels ==
    IF an_op = "process_all"
    THEN (IF "channel" \in DOMAIN raw_data
          THEN <<raw_data["channel"]>> ELSE <<>>)
         \o (IF "competitors" \in DOMAIN raw_data
             THEN raw_data["competitors"] ELSE <<>>)
    ELSE <<raw_data["channel"]>>

\* the period, or baseline, videos of the channels the call can reach
VideosUnder(listKey) ==
    Flatten([c \in DOMAIN ReachableChannels |->
                Get(ReachableChannels[c], listKey, <<>>)])

\* the fields whose absence the code does not tolerate, missing from the
\* input: the two entries of raw_data, the id, name and video lists of a
\* channel, the title, id and views of a period video
MissingSubscripted ==
    (IF an_op = "process_all"
     THEN {"channel", "competitors"} \ DOMAIN raw_data ELSE {})
    \cup UNION { {"channel_id", "channel_name", "period_videos",
                  "baseline_videos"} \ DOMAIN ReachableChannels[c] :
                 c \in DOMAIN ReachableChannels }
    \cup UNION { {"title", "video_id", "views"}
                     \ DOMAIN VideosUnder("period_videos")[k] :
                 k \in DOMAIN VideosUnder("period_videos") }

\* a field the claim calls required is missing from the input: the window
\* length, the id, name, role or a video list of a channel, the title or
\* id of a video
MissingRequired ==
    \/ "days" \notin DOMAIN raw_data
    \/ \E c \in DOMAIN ReachableChannels :
          ~({"channel_id", "channel_name", "role", "period_videos",
             "baseline_videos"} \subseteq DOMAIN ReachableChannels[c])
    \/ \E key \in {"period_videos", "baseline_videos"} :
          \E k \in DOMAIN VideosUnder(key) :
              ~({"title", "video_id"} \subseteq DOMAIN VideosUnder(key)[k])

ShortsMaxSeconds == 180

\* youtube_api.py:252  "max_videos=100"
BaselineFetch == 100

\* youtube_api.py:257  "[:50]"
BaselineSize == 50

\* youtube_api.py:270  "max_retries: int = 1"
MaxRetries == 1

\* an absent (None) days or max_videos argument
NoLimit == -1

\* how one call of a function wrapped by _retry ends: it returns, or raises
\* HttpError 403 quotaExceeded, another HttpError, or another exception
AttemptOutcomes == {"ok", "quota", "http", "other"}

\* the ending of the n-th wrapped call; calls beyond the script return
AttemptAt(script, n) == IF n <= Len(script) THEN script[n] ELSE "ok"

\* _retry(func, ...)  (youtube_api.py:270-294) entered with `attempt`, the
\* wrapped calls made so far being n - 1: the exception it raises (NoError
\* if it returns) and the number of the next wrapped call
RECURSIVE _retry(_, _, _)
_retry(script, n, attempt) ==
    LET outcome == AttemptAt(script, n)
    IN  CASE outcome = "ok" -> [raised |-> NoError, next |-> n + 1]
          [] outcome = "quota" ->
                [raised |-> <<"RuntimeError">>, next |-> n + 1]
          [] OTHER ->
                IF attempt < MaxRetries
                THEN _retry(script, n + 1, attempt + 1)
                ELSE [raised |-> <<IF outcome = "http" THEN "HttpError"
                                   ELSE "Exception">>,
                      next |-> n + 1]

\* get_recent_videos(..., days, max_videos)  (youtube_api.py:124-174): the
\* loop walks the playlist page after page, returns at the first item
\* published before the cutoff (line 163) and as soon as max_videos ids are
\* collected (line 168)
get_recent_videos(playlist, days, max_videos) ==
    LET old == { i \in DOMAIN playlist :
                   days # NoLimit /\ playlist[i]["age"] > days }
        stop == IF old = {} THEN Len(playlist) + 1
                ELSE CHOOSE i \in old : \A j \in old : i <= j
        n == IF max_videos # NoLimit /\ max_videos < stop - 1
             THEN max_videos ELSE stop - 1
    IN  [k \in 1..n |-> playlist[k]["video_id"]]

\* get_video_details(video_ids, api_key)  (youtube_api.py:177-216); the id
\* of an upload is its place in the playlist
get_video_details(playlist, video_ids) ==
    [k \in 1..Len(video_ids) |->
        LET item == playlist[video_ids[k]]
        IN  [video_id |-> item["video_id"],
             title |-> "title",
             published_at |-> item["age"],
             views |-> item["views"],
             likes |-> 0,
             comments |-> 0,
             duration_seconds |-> item["duration_seconds"]]]

\* _is_short(video_id)  (youtube_api.py:30-41): the HEAD request answers
\* 200, answers 303, or fails (and then the video is not taken for a Short)
_is_short(playlist, video_id) == playlist[video_id]["head"] = "200"

\* _filter_shorts dropping every video of at most 180 s
_filter_shorts_DropBrief(playlist, videos) ==
    SelectSeq(videos, LAMBDA v : v["duration_seconds"] > ShortsMaxSeconds)

\* _filter_shorts(videos)  (youtube_api.py:44-72): the videos longer than
\* 180 s, followed by the checked ones that are no Shorts
_filter_shorts(playlist, videos) ==
    LET long_form ==
            SelectSeq(videos,
                      LAMBDA v : v["duration_seconds"] > ShortsMaxSeconds)
        to_check ==
            SelectSeq(videos,
                      LAMBDA v : ~(v["duration_seconds"] > ShortsMaxSeconds))
    IN  long_form \o
            SelectSeq(to_check, LAMBDA v : ~_is_short(playlist, v["video_id"]))

\* fetch_channel_data(handle, api_key, days)  (youtube_api.py:219-267):
\* the exception raised and the dict returned
fetch_channel_data(playlist, days, script) ==
    LET resolved == _retry(script, 1, 0)
        period_ids == get_recent_videos(playlist, days, NoLimit)
        gotPeriodIds == _retry(script, resolved.next, 0)
        gotPeriod ==
            IF period_ids # <<>> THEN _retry(script, gotPeriodIds.next, 0)
            ELSE [raised |-> NoError, next |-> gotPeriodIds.next]
        periodVideos ==
            _filter_shorts(playlist, get_video_details(playlist, period_ids))
        baseline_ids ==
            get_recent_videos(playlist, NoLimit, BaselineFetch)
        gotBaselineIds == _retry(script, gotPeriod.next, 0)
        gotBaseline ==
            IF baseline_ids # <<>> THEN _retry(script, gotBaselineIds.next, 0)
            ELSE [raised |-> NoError, next |-> gotBaselineIds.next]
        baselineVideos ==
            Take(_filter_shorts(playlist,
                                get_video_details(playlist, baseline_ids)),
                 BaselineSize)
        raised ==
            FirstError(<<resolved.raised, gotPeriodIds.raised,
                         gotPeriod.raised, gotBaselineIds.raised,
                         gotBaseline.raised>>)
    IN  [raised |-> raised,
         data |->
            IF raised # NoError THEN NoneDict
            ELSE [channel_id |-> "UC1",
                  channel_name |-> "name",
                  subscriber_count |-> 1000,
                  total_views |-> 5000,
                  uploads_playlist_id |-> "UU1",
                  period_videos |-> periodVideos,
                  baseline_videos |-> baselineVideos]]

\* ------------------------------------------------------------------------
\* A call of fetch_channel_data
\* ------------------------------------------------------------------------

\* the kinds of upload: longer than 180 s; at most 180 s and no Short (HEAD
\* answers 303); a Short (HEAD answers 200); a Short whose HEAD request
\* fails
UploadKinds == {"long", "brief", "short", "hidden"}

\* how many like uploads follow each other
BlockSizes == {1, 60}

\* n uploads of one kind
Block(kind, n) ==
    [i \in 1..n |->
        [duration_seconds |-> IF kind = "long" THEN 600
                              ELSE IF kind = "brief" THEN 120 ELSE 45,
         head |-> CASE kind = "short" -> "200"
                    [] kind = "hidden" -> "error"
                    [] OTHER -> "303",
         is_short |-> kind \in {"short", "hidden"}]]

\* the playlist made of these blocks: the upload at place i has id i, was
\* published i - 1 days ago and has 100 + i views
Playlist(blocks) ==
    LET items == Flatten(blocks)
    IN  [i \in 1..Len(items) |->
            [video_id |-> i,
             age |-> i - 1,
             views |-> 100 + i,
             duration_seconds |-> items[i]["duration_seconds"],
             head |-> items[i]["head"],
             is_short |-> items[i]["is_short"]]]

Playlists(n) ==
    { Playlist(blocks) :
        blocks \in SeqsUpTo({ Block(kind, size) :
                                kind \in UploadKinds, size \in BlockSizes },
                            n) }

FetchInit ==
    /\ fetch_pc = "call"
    /\ \/ /\ uploads \in Playlists(MaxBlocks)
          /\ fetch_days \in {30, 90}
          /\ attempts = <<>>
       \/ /\ uploads \in Playlists(1)
          /\ fetch_days = DefaultDays
          /\ attempts \in SeqsUpTo(AttemptOutcomes, MaxAttempts)
    /\ fetch_raised = NoError
    /\ fetch_data = NoneDict
    /\ PipeIdle
    /\ EngIdle
    /\ ScoreIdle
    /\ AnIdle
    /\ LaterIdle

CallFetchChannelData ==
    /\ fetch_pc = "call"
    /\ fetch_raised' = fetch_channel_data(uploads, fetch_days, attempts).raised
    /\ fetch_data' = fetch_channel_data(uploads, fetch_days, attempts).data
    /\ fetch_pc' = "done"
    /\ UNCHANGED <<uploads, fetch_days, attempts, pipeVars, engVars,
                   scoreVars, anVars, laterVars>>

FetchNext == CallFetchChannelData

SpecFetch == FetchInit /\ [][FetchNext]_vars

\* ------------------------------------------------------------------------
\* Properties of fetch_channel_data
\* ------------------------------------------------------------------------

FetchReturned == fetch_pc = "done" /\ fetch_raised = NoError

\* C20 as stated: the baseline returned for a channel that has uploads is
\* not empty.
C20_BaselineNeverEmpty ==
    (FetchReturned /\ uploads # <<>>) => fetch_data["baseline_videos"] # <<>>

\* the 100 most recent uploads
MostRecentUploads == { i \in DOMAIN uploads : i <= 100 }

\* C20 as amended: the baseline returned is not empty exactly when one of
\* the channel's 100 most recent uploads is longer than 180 s or is not
\* found to be a Short (the HEAD request for its shorts URL does not answer
\* 200).
C20_BaselineEmptyOnlyOfShorts ==
    FetchReturned =>
        (fetch_data["baseline_videos"] # <<>>
            <=> \E i \in MostRecentUploads :
                    \/ uploads[i]["duration_seconds"] > 180
                    \/ uploads[i]["head"] # "200")

C20_Witness ==
    /\ FetchReturned
    /\ Len(uploads) = 120
    /\ \A i \in 1..60 : uploads[i]["head"] = "200"
    /\ uploads[61]["duration_seconds"] > 180
    /\ Len(fetch_data["baseline_videos"]) = 40

\* ------------------------------------------------------------------------
\* The fallback narrative of a report, built twice from one analytics output
\* ------------------------------------------------------------------------

\* raw with its first competitor bearing the display name of the primary
\* channel (the display name is the channel's title, youtube_api.py:261,
\* which is not unique on YouTube; the channel id stays its own)
WithSameName(raw) ==
    [raw EXCEPT !["competitors"][1]["channel_name"] =
                    raw["channel"]["channel_name"]]

NarrativeInputs ==
    WellFormedInputs
    \cup { WithSameName(raw) :
            raw \in { r \in WellFormedInputs : r["competitors"] # <<>> } }

NarInit ==
    /\ nar_pc = "call"
    /\ nar_analytics \in { process_all(raw) : raw \in NarrativeInputs }
    /\ nar_first = NoneDict
    /\ nar_second = NoneDict
    /\ PipeIdle
    /\ EngIdle
    /\ ScoreIdle
    /\ AnIdle
    /\ FetchIdle
    /\ GateIdle
    /\ RetryIdle
    /\ DedupIdle

\* the report is rendered without insights by two interpreter processes
\* given equal analytics dicts
BuildFallbackNarrative ==
    /\ nar_pc = "call"
    /\ \E listed \in ListsOfSet(outlier_channels(nar_analytics)) :
            nar_first' = fallback_narrative(nar_analytics, listed)
    /\ \E listed \in ListsOfSet(outlier_channels(nar_analytics)) :
            nar_second' = fallback_narrative(nar_analytics, listed)
    /\ nar_pc' = "done"
    /\ UNCHANGED <<nar_analytics, pipeVars, engVars, scoreVars, anVars,
                   fetchVars, gateVars, retryVars, dedupVars>>

NarNext == BuildFallbackNarrative

SpecNarrative == NarInit /\ [][NarNext]_vars

\* ------------------------------------------------------------------------
\* Properties of the fallback narrative
\* ------------------------------------------------------------------------

NarrativeBuilt == nar_pc = "done"

NarLeaderboard == nar_analytics["comparative"]["cross_channel_leaderboard"]

\* C21 as stated: the fallback takeaways are exactly three.
C21_ExactlyThree ==
    NarrativeBuilt => Len(nar_first["takeaways"]) = 3

\* part occurs in text
Contains(text, part) ==
    \E i \in 1..(Len(text) - Len(part) + 1) :
        SubSeq(text, i, i + Len(part) - 1) = part

EnablePrompt ==
    "Enable AI insights (Feature 4) for personalized content "
    \o "strategy recommendations and data-driven video ideas."

\* C21 as amended: the fallback takeaways are exactly three when the
\* cross-channel leaderboard has an entry: the sentence giving the views
\* rank under the primary channel's display name, the sentence naming the
\* first leaderboard video and its channel, and the fixed prompt to enable
\* narrative generation.  When the leaderboard is empty (no channel has a
\* video in the period) they are exactly two: the rank sentence and the
\* prompt.
C21_ThreeUnlessNoLeaderboard ==
    NarrativeBuilt =>
        LET takeaways == nar_first["takeaways"]
            name == nar_analytics["channel"]["channel_name"]
        IN  /\ Len(takeaways) = IF NarLeaderboard # <<>> THEN 3 ELSE 2
            /\ Contains(takeaways[1], name \o " ranks #")
            /\ takeaways[Len(takeaways)] = EnablePrompt
            /\ NarLeaderboard # <<>> =>
                    Contains(takeaways[2],
                             "\"" \o NarLeaderboard[1]["title"] \o "\" by "
                             \o NarLeaderboard[1]["channel_name"] \o " with ")

C21_Witness ==
    /\ NarrativeBuilt
    /\ Len(NarLeaderboard) >= 2
    /\ Len(nar_analytics["competitors"]) = 2
    /\ Len(nar_first["takeaways"]) = 3

\* C22: the fallback narrative is deterministic: two builds from equal
\* analytics outputs give equal overview, trends, gaps and takeaways texts,
\* the order of the channel names inside each bullet included.
C22_Deterministic ==
    NarrativeBuilt => nar_first = nar_second

\* the 1-based position of the primary channel's own entry in the ranking
\* by the given field: the rankings are stable descending sorts of the
\* summaries with the primary channel first (analytics.py:119-133), so its
\* entry follows those of the competitors with a strictly greater value
OwnRank(field) ==
    1 + Cardinality({ i \in DOMAIN nar_analytics["competitors"] :
                        nar_analytics["competitors"][i][field]
                            > nar_analytics["channel"][field] })

\* C30: the views rank and the engagement rank the fallback overview
\* reports for the primary channel, and the views rank the fallback
\* takeaways report, are the positions of the primary channel's own entry
\* in views_ranking and engagement_ranking, also when a competitor bears
\* the display name of the primary channel.
C30_RanksAreOwn ==
    NarrativeBuilt =>
        LET name == nar_analytics["channel"]["channel_name"]
        IN  /\ Contains(nar_first["overview"],
                        name \o " ranks #"
                        \o ToString(OwnRank("total_period_views"))
                        \o " in total period views and #"
                        \o ToString(OwnRank("avg_engagement"))
                        \o " in average engagement.")
            /\ Contains(nar_first["takeaways"][1],
                        name \o " ranks #"
                        \o ToString(OwnRank("total_period_views"))
                        \o " of ")

\* ------------------------------------------------------------------------
\* A browser session of the Streamlit page  (app.py)
\* ------------------------------------------------------------------------

\* run_pipeline is started at most this many times in a session
MaxRuns == 2

\* the passwords configured and typed
Passwords == {"", "a", "b"}

LoginButton == "Login"

GenerateButton == "Generate Report"

\* the password the next run of the script finds configured
AppPassword == configured_password(env_password, secrets_password)

GateInit ==
    /\ gate_pc = "open"
    /\ env_password \in Passwords \cup {None}
    /\ secrets_password \in Passwords \cup {None}
    /\ session_state = EmptyDict
    /\ widget_password = ""
    /\ clicked = None
    /\ page = None
    /\ pipeline_runs = 0
    /\ PipeIdle
    /\ EngIdle
    /\ ScoreIdle
    /\ AnIdle
    /\ FetchIdle
    /\ NarIdle
    /\ RetryIdle
    /\ DedupIdle

\* one run of the script, top to bottom: the first one of the session, the
\* one a widget interaction starts, or the one st.rerun() starts.  A button
\* can be clicked only on the page that shows it, and reads True only in
\* the run its click starts; form_ok tells whether the form's inputs pass
\* the checks of lines 86-99.
RunScript ==
    /\ gate_pc \in {"open", "wait", "rerun"}
    /\ \E password \in Passwords, click \in {None, LoginButton, GenerateButton},
          form_ok \in BOOLEAN :
            /\ gate_pc = "rerun" => click = None /\ password = widget_password
            /\ page # "login" => password = "" /\ click # LoginButton
            /\ click = GenerateButton =>
                    page = "form" /\ pipeline_runs < MaxRuns
            /\ LET gate == check_password(AppPassword, session_state,
                                          password, click = LoginButton)
               IN  /\ session_state' = gate.session
                   /\ gate_pc' = IF gate.rerun THEN "rerun" ELSE "wait"
                   /\ page' = IF gate.returns THEN "form" ELSE gate.shows
                   /\ pipeline_runs' =
                        IF gate.returns /\ click = GenerateButton /\ form_ok
                        THEN pipeline_runs + 1
                        ELSE pipeline_runs
            /\ widget_password' = password
            /\ clicked' = click
    /\ UNCHANGED <<env_password, secrets_password, pipeVars, engVars,
                   scoreVars, anVars, fetchVars, narVars, retryVars,
                   dedupVars>>

\* the deployment is reconfigured between two runs: the Streamlit secrets
\* are edited or removed (they are read again at line 34 in every run), or
\* .env gains APP_PASSWORD (load_dotenv at line 11 sets what is unset)
Reconfigure ==
    /\ gate_pc \in {"open", "wait", "rerun"}
    /\ \/ /\ secrets_password' \in (Passwords \cup {None}) \ {secrets_password}
          /\ UNCHANGED env_password
       \/ /\ env_password = None
          /\ env_password' \in Passwords
          /\ UNCHANGED secrets_password
    /\ UNCHANGED <<gate_pc, session_state, widget_password, clicked, page,
                   pipeline_runs, pipeVars, engVars, scoreVars, anVars,
                   fetchVars, narVars, retryVars, dedupVars>>

GateNext == RunScript \/ Reconfigure

SpecGate == GateInit /\ [][GateNext]_vars

\* ------------------------------------------------------------------------
\* Properties of the password gate
\* ------------------------------------------------------------------------

\* the session's flag is set and true
Authenticated(session) ==
    "authenticated" \in DOMAIN session /\ session["authenticated"]

\* the step is a run of the script
ScriptRuns ==
    /\ env_password' = env_password
    /\ secrets_password' = secrets_password
    /\ gateVars' # gateVars

\* C23: in every run of the script, the form is rendered, and run_pipeline
\* called, only if the session's authenticated flag is true when the run
\* starts and the configured APP_PASSWORD is not empty, whatever the flag;
\* and the flag becomes true only in a run started by a click on Login with
\* the Password input equal to the configured, non-empty APP_PASSWORD.
C23_PasswordGated ==
    [][ /\ (ScriptRuns /\ page' = "form") =>
                Authenticated(session_state) /\ AppPassword # ""
        /\ pipeline_runs' # pipeline_runs =>
                /\ Authenticated(session_state)
                /\ AppPassword # ""
                /\ page' = "form"
        /\ (Authenticated(session_state') /\ ~Authenticated(session_state)) =>
                /\ clicked' = LoginButton
                /\ widget_password' = AppPassword
                /\ AppPassword # ""
      ]_vars

\* a session that logged in and ran the pipeline, then finds the password
\* unconfigured: the flag is still true and the form is not rendered
C23_Witness ==
    /\ Authenticated(session_state)
    /\ pipeline_runs > 0
    /\ AppPassword = ""
    /\ page = "unconfigured"
    /\ gate_pc = "wait"

\* ------------------------------------------------------------------------
\* A call of _retry  (youtube_api.py:270-294), one loop iteration at a time
\* ------------------------------------------------------------------------

\* the scripted calls of the wrapped function are at most this many; the
\* calls beyond the script return
MaxScript == 4

\* delay of _retry and of _retry_api, in seconds
RetryDelay == 2

Scripts(outcomes) == SeqsUpTo(outcomes, MaxScript)

RetryInit ==
    /\ rt_pc = "loop"
    /\ rt_script \in Scripts(AttemptOutcomes)
    /\ rt_attempt = 0
    /\ rt_calls = 0
    /\ rt_sleeps = <<>>
    /\ rt_raised = NoError
    /\ PipeIdle
    /\ EngIdle
    /\ ScoreIdle
    /\ AnIdle
    /\ FetchIdle
    /\ NarIdle
    /\ GateIdle
    /\ DedupIdle

\* an iteration that takes a quota error for any other HTTP error
RetryAttempt_QuotaRetried ==
    /\ rt_pc = "loop"
    /\ rt_calls' = rt_calls + 1
    /\ LET outcome == AttemptAt(rt_script, rt_calls + 1)
       IN  IF outcome = "ok"
           THEN /\ rt_pc' = "returned"
                /\ UNCHANGED <<rt_attempt, rt_sleeps, rt_raised>>
           ELSE IF rt_attempt < MaxRetries
           THEN /\ rt_sleeps' = Append(rt_sleeps, RetryDelay)
                /\ rt_attempt' = rt_attempt + 1
                /\ UNCHANGED <<rt_pc, rt_raised>>
           ELSE /\ rt_pc' = "raised"
                /\ rt_raised' = <<IF outcome = "other" THEN "Exception"
                                  ELSE "HttpError">>
                /\ UNCHANGED <<rt_attempt, rt_sleeps>>
    /\ UNCHANGED <<rt_script, pipeVars, engVars, scoreVars, anVars,
                   fetchVars, narVars, gateVars, dedupVars>>

\* one iteration of the loop of _retry: the call of func (line 276) and
\* what follows its ending
RetryAttempt ==
    /\ rt_pc = "loop"
    /\ rt_calls' = rt_calls + 1
    /\ LET outcome == AttemptAt(rt_script, rt_calls + 1)
       IN  CASE outcome = "ok" ->
                    /\ rt_pc' = "returned"
                    /\ UNCHANGED <<rt_attempt, rt_sleeps, rt_raised>>
             [] outcome = "quota" ->
                    /\ rt_pc' = "raised"
                    /\ rt_raised' = <<"RuntimeError">>
                    /\ UNCHANGED <<rt_attempt, rt_sleeps>>
             [] OTHER ->
                    IF rt_attempt < MaxRetries
                    THEN /\ rt_sleeps' = Append(rt_sleeps, RetryDelay)
                         /\ rt_attempt' = rt_attempt + 1
                         /\ UNCHANGED <<rt_pc, rt_raised>>
                    ELSE /\ rt_pc' = "raised"
                         /\ rt_raised' = <<IF outcome = "http"
                                           THEN "HttpError"
                                           ELSE "Exception">>
                         /\ UNCHANGED <<rt_attempt, rt_sleeps>>
    /\ UNCHANGED <<rt_script, pipeVars, engVars, scoreVars, anVars,
                   fetchVars, narVars, gateVars, dedupVars>>

RetryNext == RetryAttempt

SpecRetry == RetryInit /\ [][RetryNext]_vars

\* ------------------------------------------------------------------------
\* Properties of _retry
\* ------------------------------------------------------------------------

RetryLeft == rt_pc \in {"returned", "raised"}

\* what a failed call makes _retry raise when it is not tried again
RaisedFor(outcome) ==
    CASE outcome = "quota" -> <<"RuntimeError">>
      [] outcome = "http" -> <<"HttpError">>
      [] outcome = "other" -> <<"Exception">>

\* C24: _retry calls the wrapped function at most twice.  A first call
\* that succeeds makes it return at once; a quota error makes it raise
\* RuntimeError at its first occurrence, with no call after it; any other
\* failure of the first call is followed by one wait of the delay and
\* exactly one more call, whose success is returned and whose failure is
\* raised.  The outcome is the one fetch_channel_data's calls of _retry are
\* given.
C24_AtMostTwoCalls ==
    LET first == AttemptAt(rt_script, 1)
        second == AttemptAt(rt_script, 2)
    IN  /\ rt_calls <= 2
        /\ (rt_pc = "loop" /\ rt_calls = 1) =>
                first \in {"http", "other"} /\ rt_sleeps = <<RetryDelay>>
        /\ RetryLeft =>
            /\ CASE first = "ok" ->
                        rt_pc = "returned" /\ rt_calls = 1 /\ rt_sleeps = <<>>
                 [] first = "quota" ->
                        /\ rt_pc = "raised"
                        /\ rt_raised = <<"RuntimeError">>
                        /\ rt_calls = 1
                        /\ rt_sleeps = <<>>
                 [] OTHER ->
                        /\ rt_calls = 2
                        /\ rt_sleeps = <<RetryDelay>>
                        /\ IF second = "ok"
                           THEN rt_pc = "returned"
                           ELSE rt_pc = "raised"
                                /\ rt_raised = RaisedFor(second)
            /\ (rt_pc = "returned") = (_retry(rt_script, 1, 0).raised = NoError)
            /\ rt_pc = "raised" => rt_raised = _retry(rt_script, 1, 0).raised
            /\ rt_calls = _retry(rt_script, 1, 0).next - 1

\* the first call failed otherwise than on quota and the second hit the
\* quota
C24_Witness ==
    /\ rt_pc = "raised"
    /\ rt_calls = 2
    /\ AttemptAt(rt_script, 1) = "http"
    /\ rt_raised = <<"RuntimeError">>

\* ------------------------------------------------------------------------
\* A call of _retry_api  (slides_report.py:111-133), one loop iteration at
\* a time
\* ------------------------------------------------------------------------

\* max_retries of _retry_api
ApiMaxRetries == 3

\* how a call of func ends: it returns, raises HttpError with the status
\* given, or raises another exception
ApiOutcomes == {"ok", "429", "500", "503", "404", "error"}

\* line 120: the statuses retried
RetriedStatuses == {"429", "500", "503"}

RetryApiInit ==
    /\ rt_pc = "loop"
    /\ rt_script \in Scripts(ApiOutcomes)
    /\ rt_attempt = 0
    /\ rt_calls = 0
    /\ rt_sleeps = <<>>
    /\ rt_raised = NoError
    /\ PipeIdle
    /\ EngIdle
    /\ ScoreIdle
    /\ AnIdle
    /\ FetchIdle
    /\ NarIdle
    /\ GateIdle
    /\ DedupIdle

\* an iteration that tries again after an HTTP error of any status
RetryApiAttempt_AnyStatus ==
    /\ rt_pc = "loop"
    /\ rt_calls' = rt_calls + 1
    /\ LET outcome == AttemptAt(rt_script, rt_calls + 1)
       IN  IF outcome = "ok"
           THEN /\ rt_pc' = "returned"
                /\ UNCHANGED <<rt_attempt, rt_sleeps, rt_raised>>
           ELSE IF rt_attempt < ApiMaxRetries
           THEN /\ rt_sleeps' =
                        Append(rt_sleeps, RetryDelay * Pow2(rt_attempt))
                /\ rt_attempt' = rt_attempt + 1
                /\ UNCHANGED <<rt_pc, rt_raised>>
           ELSE /\ rt_pc' = "raised"
                /\ rt_raised' = IF outcome = "error" THEN <<"Exception">>
                                ELSE <<"HttpError", outcome>>
                /\ UNCHANGED <<rt_attempt, rt_sleeps>>
    /\ UNCHANGED <<rt_script, pipeVars, engVars, scoreVars, anVars,
                   fetchVars, narVars, gateVars, dedupVars>>

\* one iteration of the loop of _retry_api: the call of func (line 118)
\* and what follows its ending
RetryApiAttempt ==
    /\ rt_pc = "loop"
    /\ rt_calls' = rt_calls + 1
    /\ LET outcome == AttemptAt(rt_script, rt_calls + 1)
           again ==
                /\ rt_sleeps' =
                        Append(rt_sleeps, RetryDelay * Pow2(rt_attempt))
                /\ rt_attempt' = rt_attempt + 1
                /\ UNCHANGED <<rt_pc, rt_raised>>
       IN  CASE outcome = "ok" ->
                    /\ rt_pc' = "returned"
                    /\ UNCHANGED <<rt_attempt, rt_sleeps, rt_raised>>
             [] outcome = "error" ->
                    IF rt_attempt < ApiMaxRetries
                    THEN again
                    ELSE /\ rt_pc' = "raised"
                         /\ rt_raised' = <<"Exception">>
                         /\ UNCHANGED <<rt_attempt, rt_sleeps>>
             [] OTHER ->
                    IF outcome \in RetriedStatuses
                       /\ rt_attempt < ApiMaxRetries
                    THEN again
                    ELSE /\ rt_pc' = "raised"
                         /\ rt_raised' = <<"HttpError", outcome>>
                         /\ UNCHANGED <<rt_attempt, rt_sleeps>>
    /\ UNCHANGED <<rt_script, pipeVars, engVars, scoreVars, anVars,
                   fetchVars, narVars, gateVars, dedupVars>>

RetryApiNext == RetryApiAttempt

SpecRetryApi == RetryApiInit /\ [][RetryApiNext]_vars

\* ------------------------------------------------------------------------
\* Properties of _retry_api
\* ------------------------------------------------------------------------

\* the call that decides: the first one that succeeds or raises an HTTP
\* error of a status not retried, the fourth one at the latest
DecidingCall ==
    LET deciding == { i \in 1..4 :
                        \/ i = 4
                        \/ AttemptAt(rt_script, i) = "ok"
                        \/ AttemptAt(rt_script, i)
                                \notin RetriedStatuses \cup {"error"} }
    IN  CHOOSE i \in deciding : \A j \in deciding : i <= j

\* C25: _retry_api calls func again after an HTTP error of status 429, 500
\* or 503, having waited 2 s, 4 s and 8 s before the second, third and
\* fourth call; it makes at most 4 calls, returns at the first call that
\* succeeds, raises the failure of the fourth call when that fails too, and
\* raises an HTTP error of any other status at its first occurrence with no
\* call after it.
C25_BackoffRetries ==
    /\ rt_calls <= 4
    /\ rt_sleeps = [i \in 1..rt_attempt |-> 2 * Pow2(i - 1)]
    /\ Len(rt_sleeps) <= 3
    /\ rt_pc = "loop" =>
            /\ rt_calls = rt_attempt
            /\ rt_calls < DecidingCall
            /\ \A i \in 1..rt_calls :
                    AttemptAt(rt_script, i) \in RetriedStatuses \cup {"error"}
    /\ RetryLeft =>
            LET last == AttemptAt(rt_script, rt_calls)
            IN  /\ rt_calls = DecidingCall
                /\ Len(rt_sleeps) = rt_calls - 1
                /\ (rt_pc = "returned") = (last = "ok")
                /\ rt_pc = "raised" =>
                        rt_raised = IF last = "error" THEN <<"Exception">>
                                    ELSE <<"HttpError", last>>

\* three retried statuses in a row and a fourth failure: raised after four
\* calls and waits of 2, 4 and 8 seconds
C25_Witness ==
    /\ rt_pc = "raised"
    /\ rt_script = <<"429", "500", "503", "429">>
    /\ rt_calls = 4
    /\ rt_sleeps = <<2, 4, 8>>
    /\ rt_raised = <<"HttpError", "429">>

\* ------------------------------------------------------------------------
\* A call of deduplicate_handles, and a second one on what it returned
\* ------------------------------------------------------------------------

\* lists of at most this many competitor handles are de-duplicated
MaxHandles == 3

\* spellings of the handles a, b and p, and the handle that is all "@"
HandleSamples ==
    { <<"@", "a">>, <<"a">>, <<"A">>, <<"@", "@", "P">>, <<"@", "b">>,
      <<"B">>, <<"@", "p">>, <<"P">>, <<"@">> }

DedupInit ==
    /\ dd_pc = "call"
    /\ dd_channel \in {PrimaryHandle, <<"P">>}
    /\ dd_competitors \in SeqsUpTo(HandleSamples, MaxHandles)
    /\ dd_result = NoneDict
    /\ dd_again = NoneDict
    /\ PipeIdle
    /\ EngIdle
    /\ ScoreIdle
    /\ AnIdle
    /\ FetchIdle
    /\ NarIdle
    /\ GateIdle
    /\ RetryIdle

\* deduplicate_handles(channel, competitors)
CallDeduplicate ==
    /\ dd_pc = "call"
    /\ dd_result' = deduplicate_handles(dd_channel, dd_competitors)
    /\ dd_pc' = "done"
    /\ UNCHANGED <<dd_channel, dd_competitors, dd_again, pipeVars, engVars,
                   scoreVars, anVars, fetchVars, narVars, gateVars,
                   retryVars>>

\* deduplicate_handles(channel, unique_competitors)
CallDeduplicateAgain ==
    /\ dd_pc = "done"
    /\ dd_again' = deduplicate_handles(dd_channel, dd_result.unique)
    /\ dd_pc' = "again"
    /\ UNCHANGED <<dd_channel, dd_competitors, dd_result, pipeVars, engVars,
                   scoreVars, anVars, fetchVars, narVars, gateVars,
                   retryVars>>

DedupNext == CallDeduplicate \/ CallDeduplicateAgain

SpecDedup == DedupInit /\ [][DedupNext]_vars

\* ------------------------------------------------------------------------
\* Properties of deduplicate_handles
\* ------------------------------------------------------------------------

\* h from its first character other than "@"
Bare(h) ==
    LET ats == { i \in 0..Len(h) : \A j \in 1..i : h[j] = "@" }
        lead == CHOOSE i \in ats : \A j \in ats : j <= i
    IN  SubSeq(h, lead + 1, Len(h))

\* the characters c and d are the same letter in either case
SameLetter(c, d) ==
    \/ c = d
    \/ \E i \in 1..Len(LowerLetters) :
            {c, d} = {LowerLetters[i], UpperLetters[i]}

\* g and h are one handle: equal once the leading "@"s are stripped and the
\* case is ignored
SameHandle(g, h) ==
    /\ Len(Bare(g)) = Len(Bare(h))
    /\ \A i \in 1..Len(Bare(g)) : SameLetter(Bare(g)[i], Bare(h)[i])

\* the positions of the competitors that are neither the primary channel
\* nor an earlier competitor
FirstOccurrences ==
    { i \in DOMAIN dd_competitors :
        /\ ~SameHandle(dd_competitors[i], dd_channel)
        /\ \A j \in 1..(i - 1) :
                ~SameHandle(dd_competitors[j], dd_competitors[i]) }

\* the n-th smallest member of the set of positions
NthOf(positions, n) ==
    CHOOSE i \in positions : Cardinality({ j \in positions : j <= i }) = n

\* C26: deduplicate_handles returns the competitors, as they were written
\* and in their order, that are not the primary channel's handle nor the
\* handle of an earlier competitor, handles being compared with their
\* leading "@"s stripped and in lower case; it gives one warning for each
\* entry dropped, in their order, so that kept and warnings add up to the
\* length of the input; applied to the list it returned, it returns that
\* list and no warning.
C26_Deduplicated ==
    /\ dd_pc \in {"done", "again"} =>
        LET unique == dd_result.unique
            warnings == dd_result.warnings
            dropped == (DOMAIN dd_competitors) \ FirstOccurrences
        IN  /\ Len(unique) = Cardinality(FirstOccurrences)
            /\ \A n \in 1..Len(unique) :
                    unique[n] = dd_competitors[NthOf(FirstOccurrences, n)]
            /\ Len(warnings) = Cardinality(dropped)
            /\ \A n \in 1..Len(warnings) :
                    SameHandle(warnings[n],
                               dd_competitors[NthOf(dropped, n)])
            /\ Len(unique) + Len(warnings) = Len(dd_competitors)
    /\ dd_pc = "again" =>
            /\ dd_again.unique = dd_result.unique
            /\ dd_again.warnings = <<>>

\* three competitors: the second is the primary channel in another
\* spelling, the third the first in another spelling
C26_Witness ==
    /\ dd_pc = "again"
    /\ dd_channel = PrimaryHandle
    /\ dd_competitors = << <<"@", "a">>, <<"@", "@", "P">>, <<"A">> >>
    /\ dd_result.unique = << <<"@", "a">> >>
    /\ Len(dd_result.warnings) = 2

\* ------------------------------------------------------------------------
\* Properties of the baseline of fetch_channel_data
\* ------------------------------------------------------------------------

\* the ids of the videos of the baseline returned
BaselineIds ==
    { fetch_data["baseline_videos"][n]["video_id"] :
        n \in DOMAIN fetch_data["baseline_videos"] }

\* C27: the baseline returned holds at most 50 videos, none of them a
\* Short, and no video that is not a Short among the 100 most recent
\* uploads fetched is left out of it while a video published before it is
\* included.
C27_MostRecentLongForm ==
    FetchReturned =>
        /\ Len(fetch_data["baseline_videos"]) <= 50
        /\ \A i \in BaselineIds : ~uploads[i]["is_short"]
        /\ \A i \in MostRecentUploads \ BaselineIds :
                ~uploads[i]["is_short"] =>
                    \A j \in BaselineIds : uploads[j]["age"] <= uploads[i]["age"]

\* ------------------------------------------------------------------------
\* The event stream of run_pipeline
\* ------------------------------------------------------------------------

\* the positions of the error and result events in the stream
TerminalEvents ==
    { i \in DOMAIN events : events[i].type \in {"error", "result"} }

\* the generator has been left: by its return (pc "done") or by an
\* exception that no handler caught (pc "raised")
RunOver == pc \in {"done", "raised"}

\* C28: every run of run_pipeline emits exactly one terminal event, an error
\* event or a result event and never both, and that event is the last of the
\* stream: a run that is over has emitted exactly one and nothing after it,
\* a run that is not over has emitted none, and once the terminal event is
\* out no step follows.
C28_OneTerminalEvent ==
    /\ RunOver =>
          /\ Cardinality(TerminalEvents) = 1
          /\ TerminalEvents = {Len(events)}
    /\ ~RunOver => TerminalEvents = {}
    /\ TerminalEvents # {} => ~ENABLED PipeNext

\* the run has emitted its result event
AtResult == pc = "done" /\ LastEventIs("result")

\* the fetch attempts made for a competitor handle, and how the handle's
\* only attempt ended
AttemptsFor(h) ==
    { i \in CallsOf("fetch_channel_data") : i > 1 /\ calls[i].handle = h }
FetchRaisedFor(h) == \E i \in AttemptsFor(h) : calls[i].raised
FetchReturnedFor(h) == \E i \in AttemptsFor(h) : ~calls[i].raised

\* C29: at the result event every de-duplicated competitor handle has had
\* exactly one fetch attempt and is accounted for exactly once:
\* failed_channels lists, in order, exactly the handles whose fetch raised,
\* channels_fetched is 1 + (de-duplicated competitors - failed channels),
\* and the competitor summaries come in the order of the handles whose
\* fetch returned.
C29_CompetitorsAccounted ==
    AtResult =>
        LET unique == deduplicate_handles(channel, input_competitors).unique
            summary == events[Len(events)]["summary"]
            failed == SelectSeq(unique, FetchRaisedFor)
            fetched == SelectSeq(unique, FetchReturnedFor)
            summaries == analytics["competitors"]
        IN  /\ \A k \in DOMAIN unique :
                  Cardinality(AttemptsFor(unique[k])) = 1
            /\ NumFetches = 1 + Len(unique)
            /\ summary["failed_channels"] = failed
            /\ summary["channels_fetched"]
                  = 1 + (Len(unique) - Len(summary["failed_channels"]))
            /\ Len(summaries) = Len(fetched)
            /\ \A k \in DOMAIN summaries :
                  summaries[k]["channel_id"] = Normalize(fetched[k])
            /\ Len(failed) + Len(fetched) = Len(unique)

\* two fetches raised, one of them before a fetch that returned, and the
\* input held a duplicate
C29_Witness ==
    /\ AtResult
    /\ Len(failed_channels) = 2
    /\ Len(competitors) < Len(input_competitors)
    /\ \E i, j \in CallsOf("fetch_channel_data") :
          1 < i /\ i < j /\ calls[i].raised /\ ~calls[j].raised

====
